---- MODULE Spec2Model ----
(***************************************************************************)
(* GpuHashJoin of PG-Strom: the execution node (gpuhashjoin_exec,          *)
(* gpuhashjoin_exec_multi, pgstrom_fetch_gpuhashjoin,                      *)
(* gpuhashjoin_load_next_chunk, gpuhashjoin_rescan), the OpenCL server's   *)
(* session handlers (clserv_process_gpuhashjoin, clserv_respond_hashjoin)  *)
(* and the reference counted multi hash-table buffer they share.           *)
(***************************************************************************)
EXTENDS Integers, Sequences, FiniteSets, TLC

(* ------------------------------------------------------------------ *)
(* Bounds of the model                                                  *)
(* ------------------------------------------------------------------ *)
\* rows of the outer relation
NOuterRows == 2
\* rows one outer data store (or one bulk chunk) holds
ChunkRows == 1
\* the inner relation is delivered in 1..MaxInnerChunks hash buffers
MaxInnerChunks == 2
\* sessions (pgstrom_gpuhashjoin messages) ever created in one run
MaxSessions == 4
\* calls of gpuhashjoin_rescan in one run
MaxRescans == 1
\* the GUC pgstrom_max_async_chunks
pgstrom_max_async_chunks == 1
\* largest number of inner matches of one outer row within one hash buffer
MaxMatch == 2
\* failures injected in one run (allocation, OpenCL call, device, queue)
MaxFaults == 1
\* sessions whose device commands are followed
MaxDevSessions == 2
\* rows one scan of an inner relation yields
MaxBuildRows == 3
\* hash values of inner rows (0..MaxHash, each times HashStride so that
\* hash values larger than the number of slots occur) and largest t_len
MaxHash == 1
HashStride == 3
MaxTupleLen == 2
\* allocations of shared memory that can succeed during one build
MaxAllocs == 4
\* distinct Var nodes of a plan, and Var occurrences in the host-side and
\* in the device-side expressions of the GpuHashJoin node
MaxVars == 3
MaxRefs == 2
\* the generated kernel function: values of a join key, values of the
\* column of a depth-1 entry that the key of depth 2 may refer to, hash
\* values (so that different keys collide), entries of one hash table,
\* rows of the outer chunk
MaxKey == 2
MaxKvar == 1
NHash == 2
MaxEntries == 2
MaxOuterRows == 2
\* inner relations of the join (gpath->num_rels): MultiHash nodes chained
NRels == 2
\* the planner's row estimate of each inner relation (inners[i].ntuples)
EstInnerRows == 2
\* sizes, in units of one aligned cell: offsetof(kern_multihash,
\* htable_offset[nrels + 1]), offsetof(kern_hashtable, colmeta[natts]),
\* offsetof(kern_hashentry, htup)
KernHeadLen == 1
HashtableHeadLen == 1
EntryHeadLen == 1
\* planner's row estimates (plan_rows of the join and of its outer plan)
EstJoinRows == 2
EstOuterRows == 2

(* ------------------------------------------------------------------ *)
(* Error codes.  msg.errcode holds StromError_* and OpenCL's CL_* codes *)
(* alike (line 5053 stores rc into it, line 2814 compares it with       *)
(* StromError_Success).                                                 *)
(* ------------------------------------------------------------------ *)
StromError_Success == 0
CL_SUCCESS == 0
StromError_DataStoreCorruption == 2
StromError_DataStoreNoSpace == 3
StromError_OutOfSharedMemory == 1001
StromError_OpenCLInternal == 1002
CL_OUT_OF_RESOURCES == -5
CL_OUT_OF_HOST_MEMORY == -6
CL_BUILD_PROGRAM_FAILURE == -11

KDS_FORMAT_TUPSLOT == "TUPSLOT"
KDS_FORMAT_ROW_FLAT == "ROW_FLAT"

NULL == 0

OuterRows == 1..NOuterRows
SessionIds == 1..MaxSessions
\* hash buffers ever built in one run: one per inner chunk and scan pass
MaxTables == MaxInnerChunks * (MaxRescans + 1)
TableIds == 1..MaxTables

Min(a, b) == IF a < b THEN a ELSE b

VARIABLES
    outer_bulkload,  \* ghjs->outer_bulkload: the outer plan is bulk-loaded
    exec_multi,      \* the node is driven through gpuhashjoin_exec_multi
    host_clauses,    \* ghjs->host_clauses != NIL
    inner_nchunks,   \* hash buffers the inner relation needs (K)
    ghjs,            \* GpuHashJoinState
    outer,           \* outer plan state: scan position, pending chgParam
    inner,           \* MultiHashState of the inner plan
    mht,             \* pgstrom_multihash_tables, by table id
    msg,             \* pgstrom_gpuhashjoin messages (sessions), by id
    clghj,           \* clstate_gpuhashjoin of each session
    dprog,           \* state of the device program of dprog_key
    srvq,            \* queue of messages towards the OpenCL server
    waitq,           \* messages waiting for the program build
    respq,           \* ghjs->mqueue: replied messages
    pc,              \* where the backend is
    hist,            \* what happened so far (observation only)
    devq,            \* the commands of the sessions on the device
    bld,             \* the MultiHash nodes building their hash tables
    pscan,           \* build_pseudo_scan_vartrans at work on a plan
    kern,            \* gpuhashjoin_execute called for one outer row
    preagg           \* the gpupreagg kernels at work on one work-group

vars == <<outer_bulkload, exec_multi, host_clauses, inner_nchunks, ghjs,
          outer, inner, mht, msg, clghj, dprog, srvq, waitq, respq, pc, hist,
          devq, bld, pscan, kern, preagg>>

\* the parts that are looked at on their own, apart from the scan, and
\* what is at rest while one of them runs
aside == <<devq, bld, pscan, kern, preagg>>
aside_devq == <<bld, pscan, kern, preagg>>
aside_bld == <<devq, pscan, kern, preagg>>
aside_pscan == <<devq, bld, kern, preagg>>
aside_kern == <<devq, bld, pscan, preagg>>
aside_preagg == <<devq, bld, pscan, kern>>

\* the scan itself
scan == <<outer_bulkload, exec_multi, host_clauses, inner_nchunks, ghjs,
          outer, inner, mht, msg, clghj, dprog, srvq, waitq, respq, pc, hist>>

config == <<outer_bulkload, exec_multi, host_clauses, inner_nchunks>>


(* ------------------------------------------------------------------ *)
(* Shapes                                                               *)
(* ------------------------------------------------------------------ *)
\* a pgstrom_multihash_tables that was not built yet
NoTable ==
    [built |-> FALSE, freed |-> FALSE, refcnt |-> 0, n_kernel |-> 0,
     m_hash |-> FALSE, ev_hash |-> NULL, is_divided |-> FALSE,
     chunk |-> 0, nwrites |-> 0, nfree |-> 0]

\* a pgstrom_gpuhashjoin that was not created yet
NoMessage ==
    [st |-> "none", mh |-> NULL, rows |-> {}, nvalids |-> -1,
     ktoast |-> FALSE, errcode |-> StromError_Success,
     kres_nrooms |-> 0, kres_errcode |-> StromError_Success,
     format |-> KDS_FORMAT_TUPSLOT, kds_nrooms |-> 0, kds_nitems |-> 0,
     kds_usage |-> 0,
     n_proc |-> 0, n_main |-> 0, n_proj |-> 0, n_send |-> 0,
     n_retry |-> 0, n_reply |-> 0, n_handed |-> 0, n_put |-> 0,
     proc_failed |-> FALSE]

\* no clstate_gpuhashjoin
NoClstate == [objs |-> {}, ev0 |-> NULL, hash_loader |-> FALSE]

NoRescan == [done |-> FALSE, had_table |-> FALSE, chg |-> FALSE,
             divided |-> FALSE, kept |-> FALSE, outer_restarted |-> FALSE]

NoBulk == [sess |-> NULL, nitems |-> 0, nvalids |-> -1, rindex |-> <<>>]

\* the rows gpuhashjoin_exec returned from the session it scanned last
NoReturned == [sess |-> NULL, rows |-> <<>>, closed |-> FALSE]

\* a device nothing was enqueued on
NoDevice ==
    [n_kernel |-> 0, ev_hash |-> NULL, rowmap |-> <<>>, events |-> <<>>,
     loader |-> <<>>, wait |-> <<>>, state |-> <<>>, called |-> {}]

\* no tuple slot
NoRow == [hash |-> -1, t_len |-> 0, data |-> 0]

\* a MultiHashState before its first execution; nrows: rows its outer plan
\* returned since the scan started, fed: the rows of the table it built
\* last, chunkno: the tables it built since the scan started, rel: the
\* rows of its relation as far as a scan has shown them, stored: the rows
\* put into tables since the scan started, built_at: the offset at which
\* the table was built, rel_done: a scan
\* has reached the end of the relation
NoMhs ==
    [outer_done |-> FALSE, outer_overflow |-> NoRow, curr_chunk |-> <<>>,
     nrows |-> 0, fed |-> <<>>, chunkno |-> 0, stored |-> <<>>,
     rel |-> <<>>, rel_done |-> FALSE, built_at |-> 0]

\* no pgstrom_multihash_tables under construction; id tells the
\* allocations apart
NoBuffer ==
    [length |-> 0, usage |-> 0, freed |-> FALSE, is_divided |-> FALSE,
     htable_offset |-> [d \in 1..NRels |-> 0], mem |-> <<>>, id |-> 0,
     dindex |-> -1, n_kernel |-> 0, m_hash |-> NULL, ev_hash |-> NULL]

\* the chain of MultiHash nodes before its first execution
NoBuild ==
    [pc |-> "idle", level |-> 0, nslots |-> 0, hashtable_size |-> 0,
     mhtables |-> NoBuffer, mhs |-> <<>>, scan_forward |-> FALSE,
     consumed |-> 0, ntuples |-> 0, scan_slot |-> NoRow, nalloc |-> 0,
     error |-> "", grown |-> {}, combos |-> <<>>, pairs |-> {},
     dup |-> FALSE, handed |-> {}]

\* build_pseudo_scan_vartrans before it is called
NoPscan ==
    [pc |-> "idle", host |-> <<>>, device |-> <<>>, tlist |-> <<>>,
     varlist |-> <<>>, varrefs |-> <<>>, resnums |-> <<>>, depth |-> 0,
     vartrans |-> <<>>, plan_clauses |-> <<>>, hash_clauses |-> <<>>,
     mhash |-> <<>>, errmsg |-> "", mapping |-> <<>>,
     newnode |-> <<>>, explain |-> <<>>,
     special |-> [varattno |-> 0, child_ps |-> -1, expr |-> 0]]

\* gpuhashjoin_execute before it is called: the hash tables of the
\* depths, the depth the outer key of depth 2 is taken from, and the
\* arguments and results of the call
NoKern ==
    [pc |-> "idle", khtable |-> <<>>, nslots |-> 0, srcdepth |-> 0,
     kds_index |-> 0, key |-> 0, rbuffer |-> FALSE, out |-> <<>>,
     n_matches |-> 0]

\* no gpupreagg kernel at work
NoPreagg == [pc |-> "idle"]

\* no pgstrom_bulkslot of the outer plan
NoChunk == [rows |-> {}, nvalids |-> -1]

(* ------------------------------------------------------------------ *)
(* The data: how many inner rows of hash buffer (inner chunk) k match   *)
(* outer row r, and which rows of a destination store pass the          *)
(* host-only clauses.                                                   *)
(* ------------------------------------------------------------------ *)
NMatches(k, r) == (k + r) % (MaxMatch + 1)

\* rows the join of the outer rows `rows` with inner chunk k produces
TrueCount(k, rows) ==
    LET RECURSIVE Sum(_)
        Sum(S) == IF S = {} THEN 0
                  ELSE LET r == CHOOSE x \in S : TRUE
                       IN  NMatches(k, r) + Sum(S \ {r})
    IN  Sum(rows)

\* ExecQual(host_clauses) on row i (0-based) of session s's destination
HostQual(s, i) == (s + i) % 2 = 0

(* ------------------------------------------------------------------ *)
(* Initial state: after gpuhashjoin_begin and multihash_begin           *)
(* ------------------------------------------------------------------ *)
InitGhjs ==
    [outer_done |-> FALSE, outer_overflow |-> NULL, mhtables |-> NULL,
     num_running |-> 0, ready_pscans |-> <<>>, curr_ghjoin |-> NULL,
     curr_index |-> 0]

InitHist ==
    [joined |-> [k \in 1..MaxInnerChunks, r \in OuterRows |-> 0],
     nsess |-> 0, ntables |-> 0, rescans |-> 0,
     faults |-> 0, reordered |-> FALSE, last_rescan |-> NoRescan,
     last_bulk |-> NoBulk, returned |-> NoReturned, timeout |-> ""]

\* whether one more failure may be injected
MayFail == hist.faults < MaxFaults

\* the choice between success (TRUE) and an injected failure (FALSE)
Outcomes == IF MayFail THEN BOOLEAN ELSE {TRUE}

Fault(h) == [h EXCEPT !.faults = @ + 1]

InitState ==
    /\ ghjs = InitGhjs
    /\ outer = [pos |-> 1, chg |-> FALSE]
    /\ inner = [outer_done |-> FALSE, curr_chunk |-> FALSE,
                left |-> inner_nchunks, chg |-> FALSE]
    /\ mht = [t \in TableIds |-> NoTable]
    /\ msg = [s \in SessionIds |-> NoMessage]
    /\ clghj = [s \in SessionIds |-> NoClstate]
    /\ dprog = "building"
    /\ srvq = <<>>
    /\ waitq = <<>>
    /\ respq = <<>>
    /\ pc = "idle"

\* the parts looked at on their own are at rest during a scan
AsideIdle ==
    /\ devq = NoDevice
    /\ bld = NoBuild
    /\ pscan = NoPscan
    /\ kern = NoKern
    /\ preagg = NoPreagg

Init ==
    /\ outer_bulkload \in BOOLEAN
    /\ exec_multi \in BOOLEAN
    /\ host_clauses \in BOOLEAN
    /\ inner_nchunks \in 1..MaxInnerChunks
    /\ InitState
    /\ hist = InitHist
    /\ AsideIdle


(* ------------------------------------------------------------------ *)
(* Reference counting of pgstrom_multihash_tables                       *)
(* ------------------------------------------------------------------ *)
\* a session that takes no reference of its own
multihash_get_tables_none(m, t) == m

multihash_get_tables(m, t) == [m EXCEPT ![t].refcnt = @ + 1]

multihash_put_tables(m, t) ==
    IF m[t].refcnt - 1 = 0
    THEN [m EXCEPT ![t].refcnt = 0, ![t].freed = TRUE, ![t].nfree = @ + 1]
    ELSE [m EXCEPT ![t].refcnt = @ - 1]

(* ------------------------------------------------------------------ *)
(* The child plans.  A backend-side operator takes and returns the      *)
(* bundle h = [ghjs, outer, inner, mht, hist] of what the backend owns. *)
(* ------------------------------------------------------------------ *)
\* ExecReScan of the outer plan
ExecReScanOuter == [pos |-> 1, chg |-> FALSE]

\* ExecProcNode(subnode): a plan with a pending chgParam is rescanned first
OuterProcNode(o) ==
    LET o0 == IF o.chg THEN ExecReScanOuter ELSE o
    IN  IF o0.pos <= NOuterRows
        THEN [outer |-> [o0 EXCEPT !.pos = @ + 1], slot |-> o0.pos]
        ELSE [outer |-> o0, slot |-> NULL]

\* MultiExecProcNode(subnode) of a bulk-loading outer plan: the next
\* ChunkRows rows at once, NULL at the end of the relation
OuterMultiExec(o) ==
    LET o0 == IF o.chg THEN ExecReScanOuter ELSE o
        last == Min(o0.pos + ChunkRows - 1, NOuterRows)
    IN  IF o0.pos <= NOuterRows
        THEN [outer |-> [o0 EXCEPT !.pos = last + 1], rows |-> o0.pos..last]
        ELSE [outer |-> o0, rows |-> {}]

multihash_rescan ==
    [outer_done |-> FALSE, curr_chunk |-> FALSE, left |-> inner_nchunks,
     chg |-> FALSE]

\* MultiExecProcNode(inner_ps): multihash_exec_multi of a leaf MultiHash
\* whose relation needs inner_nchunks buffers; is_divided as
\* multihash_preload_khashtable sets it
multihash_exec_multi(h) ==
    LET i0 == IF h.inner.chg THEN multihash_rescan ELSE h.inner
        t == h.hist.ntables + 1
        left == i0.left - 1
        done == (left = 0)
    IN  IF i0.outer_done
        THEN [h |-> [h EXCEPT !.inner = i0], mhtables |-> NULL]
        ELSE [h |-> [h EXCEPT
                       !.inner = [i0 EXCEPT !.left = left,
                                            !.outer_done = done,
                                            !.curr_chunk = TRUE],
                       !.mht[t] = [NoTable EXCEPT
                                     !.built = TRUE, !.refcnt = 1,
                                     !.is_divided = (i0.curr_chunk \/ ~done),
                                     !.chunk = inner_nchunks - i0.left + 1],
                       !.hist.ntables = t],
              mhtables |-> t]

(* ------------------------------------------------------------------ *)
(* gpuhashjoin_load_next_chunk                                          *)
(* ------------------------------------------------------------------ *)
\* a loop that forgets the row that did not fit
RECURSIVE RowLoopLoseRow(_, _, _)
RowLoopLoseRow(o, overflow, rows) ==
    LET nx == IF overflow # NULL
              THEN [outer |-> o, slot |-> overflow]
              ELSE OuterProcNode(o)
    IN  IF nx.slot = NULL
        THEN [outer |-> nx.outer, overflow |-> NULL, rows |-> rows,
              outer_done |-> TRUE]
        ELSE IF Cardinality(rows) < ChunkRows
        THEN RowLoopLoseRow(nx.outer, NULL, rows \cup {nx.slot})
        ELSE [outer |-> nx.outer, overflow |-> NULL, rows |-> rows,
              outer_done |-> FALSE]

\* the row-by-row loop: fills one data store
RECURSIVE RowLoop(_, _, _)
RowLoop(o, overflow, rows) ==
    LET nx == IF overflow # NULL
              THEN [outer |-> o, slot |-> overflow]
              ELSE OuterProcNode(o)
    IN  IF nx.slot = NULL
        THEN [outer |-> nx.outer, overflow |-> NULL, rows |-> rows,
              outer_done |-> TRUE]
        ELSE IF Cardinality(rows) < ChunkRows
        THEN RowLoop(nx.outer, NULL, rows \cup {nx.slot})
        ELSE [outer |-> nx.outer, overflow |-> nx.slot, rows |-> rows,
              outer_done |-> FALSE]

\* the first block: switch to the next inner hash buffer
LoadInner(h) ==
    LET h1 == IF h.ghjs.mhtables # NULL
              THEN [h EXCEPT !.mht = multihash_put_tables(@, h.ghjs.mhtables),
                             !.ghjs.mhtables = NULL]
              ELSE h
        mx == multihash_exec_multi(h1)
        h2 == [mx.h EXCEPT !.ghjs.mhtables = mx.mhtables]
    IN  IF mx.mhtables = NULL
        THEN [h |-> mx.h, eof |-> TRUE]
        ELSE IF h2.ghjs.outer_done
        THEN [h |-> [h2 EXCEPT !.outer = ExecReScanOuter,
                               !.ghjs.outer_done = FALSE],
              eof |-> FALSE]
        ELSE [h |-> h2, eof |-> FALSE]

\* rowmap: the bulk chunk of the outer plan carries a row map (nvalids >= 0)
RECURSIVE gpuhashjoin_load_next_chunk(_, _)
gpuhashjoin_load_next_chunk(h, rowmap) ==
    LET li == IF h.ghjs.outer_done \/ h.ghjs.mhtables = NULL
              THEN LoadInner(h)
              ELSE [h |-> h, eof |-> FALSE]
        h1 == li.h
    IN  IF li.eof
        THEN [h |-> h1, bulk |-> NoChunk]
        ELSE IF ~outer_bulkload
        THEN LET rl == RowLoop(h1.outer, h1.ghjs.outer_overflow, {})
                 h2 == [h1 EXCEPT
                          !.outer = rl.outer,
                          !.ghjs.outer_overflow = rl.overflow,
                          !.ghjs.outer_done = (@ \/ rl.outer_done)]
             IN  IF rl.rows # {}
                 THEN [h |-> h2, bulk |-> [rows |-> rl.rows, nvalids |-> -1]]
                 ELSE gpuhashjoin_load_next_chunk(h2, rowmap)
        ELSE LET mx == OuterMultiExec(h1.outer)
                 h2 == [h1 EXCEPT !.outer = mx.outer]
             IN  IF mx.rows # {}
                 THEN [h |-> h2,
                       bulk |-> [rows |-> mx.rows,
                                 nvalids |-> IF rowmap
                                             THEN Cardinality(mx.rows)
                                             ELSE -1]]
                 ELSE gpuhashjoin_load_next_chunk(
                          [h2 EXCEPT !.ghjs.outer_done = TRUE], rowmap)


(* ------------------------------------------------------------------ *)
(* pgstrom_create_gpuhashjoin / pgstrom_release_gpuhashjoin             *)
(* ------------------------------------------------------------------ *)
\* ghjs->row_population_ratio, in tenths: clamped to [1.0, 5.0]
row_population_ratio ==
    LET r == (10 * EstJoinRows) \div EstOuterRows
    IN  IF r < 10 THEN 10 ELSE IF r > 50 THEN 50 ELSE r

\* (cl_uint)((double) nitems * row_population_ratio * 1.1)
ResultRooms(nitems) == (nitems * row_population_ratio * 11) \div 100

result_format == IF exec_multi THEN KDS_FORMAT_ROW_FLAT ELSE KDS_FORMAT_TUPSLOT

NewMessage(h, bulk) ==
    LET nitems == IF bulk.nvalids < 0 THEN Cardinality(bulk.rows)
                  ELSE bulk.nvalids
    IN  [NoMessage EXCEPT
           !.st = "created",
           !.mh = h.ghjs.mhtables,
           !.rows = bulk.rows,
           !.nvalids = bulk.nvalids,
           \* in the model a store has a toast store iff it has a row map
           !.ktoast = (bulk.nvalids >= 0),
           !.kres_nrooms = ResultRooms(nitems),
           !.format = result_format,
           !.kds_nrooms = ResultRooms(nitems)]

\* the backend's side of pgstrom_create_gpuhashjoin: one more reference
\* to the hash buffer; hist.joined counts the (inner chunk, outer row)
\* pairs handed to sessions during this scan
pgstrom_create_gpuhashjoin(h, bulk) ==
    LET t == h.ghjs.mhtables
        k == h.mht[t].chunk
    IN  [h EXCEPT
           !.mht = multihash_get_tables(@, t),
           !.hist.nsess = @ + 1,
           !.hist.joined = [p \in DOMAIN @ |->
                              IF p[1] = k /\ p[2] \in bulk.rows
                              THEN @[p] + 1 ELSE @[p]]]

\* pgstrom_put_message of a message whose last reference the backend
\* holds: pgstrom_release_gpuhashjoin
ReleasedMessage(m) == [m EXCEPT !.st = "released", !.n_put = @ + 1]

\* a release that forgets the session's reference to the hash buffer
pgstrom_release_gpuhashjoin_keep(m, tables) == tables

pgstrom_release_gpuhashjoin(m, tables) == multihash_put_tables(tables, m.mh)

(* ------------------------------------------------------------------ *)
(* The backend's bundle                                                 *)
(* ------------------------------------------------------------------ *)
Backend == [ghjs |-> ghjs, outer |-> outer, inner |-> inner, mht |-> mht,
            hist |-> hist]

SetBackend(h) ==
    /\ ghjs' = h.ghjs
    /\ outer' = h.outer
    /\ inner' = h.inner
    /\ mht' = h.mht
    /\ hist' = h.hist


(* ------------------------------------------------------------------ *)
(* pgstrom_fetch_gpuhashjoin                                            *)
(* ------------------------------------------------------------------ *)
\* the condition of the loop that keeps sessions in flight
FetchLoopCond(g) ==
    ~g.outer_done /\ g.num_running <= pgstrom_max_async_chunks

\* one iteration of the loop: load a chunk, enqueue it, look for a reply
FetchLoop ==
    /\ pc = "fetch"
    /\ FetchLoopCond(ghjs)
    /\ \E rowmap \in (IF outer_bulkload THEN BOOLEAN ELSE {FALSE}),
          enq_ok \in Outcomes :
         LET r == gpuhashjoin_load_next_chunk(Backend, rowmap)
             sid == hist.nsess + 1
             h1 == pgstrom_create_gpuhashjoin(r.h, r.bulk)
             m == NewMessage(r.h, r.bulk)
         IN  IF r.bulk.rows = {}
             THEN /\ SetBackend(r.h)
                  /\ pc' = "fetched"
                  /\ UNCHANGED <<msg, srvq, respq>>
             ELSE /\ hist.nsess < MaxSessions
                  /\ IF ~enq_ok
                     THEN /\ SetBackend(
                                [h1 EXCEPT !.mht =
                                   pgstrom_release_gpuhashjoin(m, @),
                                           !.hist = Fault(@)])
                          /\ msg' = [msg EXCEPT ![sid] = ReleasedMessage(m)]
                          /\ pc' = "error"
                          /\ UNCHANGED <<srvq, respq>>
                     ELSE /\ msg' = [msg EXCEPT ![sid] =
                                        [m EXCEPT !.st = "queued"]]
                          /\ srvq' = Append(srvq, sid)
                          /\ IF respq # <<>>
                             THEN /\ SetBackend(
                                       [h1 EXCEPT !.ghjs.ready_pscans =
                                                   Append(@, Head(respq))])
                                  /\ respq' = Tail(respq)
                                  /\ pc' = "fetched"
                             ELSE /\ SetBackend(
                                       [h1 EXCEPT !.ghjs.num_running = @ + 1])
                                  /\ respq' = respq
                                  /\ pc' = "fetch"
    /\ UNCHANGED <<config, aside, clghj, dprog, waitq>>

\* a scan of the destination store that ignores the host clauses
RECURSIVE NextTupleIndexNoQual(_, _, _)
NextTupleIndexNoQual(s, i, nitems) == IF i >= nitems THEN nitems ELSE i

\* gpuhashjoin_next_tuple: the first row at or after curr_index that
\* passes the host clauses, or kds_nitems if there is none
RECURSIVE NextTupleIndex(_, _, _)
NextTupleIndex(s, i, nitems) ==
    IF i >= nitems THEN nitems
    ELSE IF host_clauses /\ ~HostQual(s, i)
    THEN NextTupleIndex(s, i + 1, nitems)
    ELSE i

\* node->ps.qual of the GpuHashJoinState: gpuhashjoin_begin leaves it NIL
\* (the plan's qual is asserted empty; host clauses go to host_clauses)
ps_qual == FALSE

\* the rows of the destination store ExecQual keeps, in order
RECURSIVE QualRows(_, _, _)
QualRows(s, i, nitems) ==
    IF i >= nitems THEN <<>>
    ELSE IF HostQual(s, i) THEN <<i>> \o QualRows(s, i + 1, nitems)
    ELSE QualRows(s, i + 1, nitems)

\* gpuhashjoin_exec_multi, after pgstrom_fetch_gpuhashjoin returned g
BulkOf(g) ==
    LET rindex == IF ps_qual THEN QualRows(g, 0, msg[g].kds_nitems)
                  ELSE <<>>
    IN  [sess |-> g, nitems |-> msg[g].kds_nitems,
         nvalids |-> IF ps_qual THEN Len(rindex) ELSE -1,
         rindex |-> rindex]

\* what the caller of pgstrom_fetch_gpuhashjoin does with session g:
\* gpuhashjoin_exec_multi returns its store as one bulk chunk and puts
\* the message; gpuhashjoin_exec makes it curr_ghjoin and scans it
Consume(h0, g) ==
    LET m == [msg[g] EXCEPT !.st = "held", !.n_handed = @ + 1]
        idx == NextTupleIndex(g, 0, m.kds_nitems)
        h == [h0 EXCEPT !.hist.reordered =
                @ \/ \E s \in 1..(g - 1) : msg[s].n_handed = 0]
    IN  IF exec_multi
        THEN /\ SetBackend([h EXCEPT
                              !.mht = pgstrom_release_gpuhashjoin(m, @),
                              !.hist.last_bulk = BulkOf(g)])
             /\ msg' = [msg EXCEPT ![g] = ReleasedMessage(m)]
             /\ pc' = "idle"
        ELSE IF idx < m.kds_nitems
        THEN /\ SetBackend([h EXCEPT !.ghjs.curr_ghjoin = g,
                                     !.ghjs.curr_index = idx + 1,
                                     !.hist.returned =
                                         [sess |-> g, rows |-> <<idx>>,
                                          closed |-> FALSE]])
             /\ msg' = [msg EXCEPT ![g] = m]
             /\ pc' = "idle"
        ELSE /\ SetBackend([h EXCEPT
                              !.mht = pgstrom_release_gpuhashjoin(m, @),
                              !.ghjs.curr_ghjoin = NULL,
                              !.ghjs.curr_index = 0,
                              !.hist.returned =
                                  [sess |-> g, rows |-> <<>>,
                                   closed |-> TRUE]])
             /\ msg' = [msg EXCEPT ![g] = ReleasedMessage(m)]
             /\ pc' = "fetch"

\* the backend is past the loop of pgstrom_fetch_gpuhashjoin
PastFetchLoop == pc = "fetched" \/ (pc = "fetch" /\ ~FetchLoopCond(ghjs))

\* end-of-data as soon as nothing is ready
FetchAtEndNothingReady(g) == g.ready_pscans = <<>>

\* "return NULL": nothing is ready and nothing is in flight
FetchAtEnd(g) == g.ready_pscans = <<>> /\ g.num_running = 0

\* the rest of pgstrom_fetch_gpuhashjoin: wait for a reply if none is
\* ready, take the first ready session, raise its error or hand it on
FetchResult ==
    /\ PastFetchLoop
    /\ LET wait == (ghjs.ready_pscans = <<>>)
       IN  IF FetchAtEnd(ghjs)
           THEN /\ pc' = "eof"
                /\ UNCHANGED <<ghjs, outer, inner, mht, hist, msg, respq>>
           ELSE /\ wait => respq # <<>>
                /\ LET ready == IF wait THEN <<Head(respq)>>
                                ELSE ghjs.ready_pscans
                       g == Head(ready)
                       h == [Backend EXCEPT
                               !.ghjs.ready_pscans = Tail(ready),
                               !.ghjs.num_running =
                                   IF wait THEN @ - 1 ELSE @]
                   IN  /\ respq' = IF wait THEN Tail(respq) ELSE respq
                       /\ IF msg[g].errcode # StromError_Success
                          THEN /\ SetBackend(h)
                               /\ msg' = [msg EXCEPT ![g].st = "failed"]
                               /\ pc' = "error"
                          ELSE Consume(h, g)
    /\ UNCHANGED <<config, aside, clghj, dprog, srvq, waitq>>


(* ------------------------------------------------------------------ *)
(* gpuhashjoin_exec / gpuhashjoin_exec_multi: the executor's call       *)
(* ------------------------------------------------------------------ *)
\* release of ghjs->curr_ghjoin, if any
ReleaseCurrent(h) ==
    IF h.ghjs.curr_ghjoin = NULL THEN h
    ELSE [h EXCEPT
            !.mht = pgstrom_release_gpuhashjoin(msg[h.ghjs.curr_ghjoin], @),
            !.ghjs.curr_ghjoin = NULL,
            !.ghjs.curr_index = 0]

MessagesAfterReleaseCurrent ==
    IF ghjs.curr_ghjoin = NULL THEN msg
    ELSE [msg EXCEPT ![ghjs.curr_ghjoin] = ReleasedMessage(@)]

\* the executor asks for the next tuple (or the next bulk chunk)
ExecCall ==
    /\ pc = "idle"
    /\ LET g == ghjs.curr_ghjoin
           idx == NextTupleIndex(g, ghjs.curr_index, msg[g].kds_nitems)
       IN  IF ~exec_multi /\ g # NULL /\ idx < msg[g].kds_nitems
           THEN /\ ghjs' = [ghjs EXCEPT !.curr_index = idx + 1]
                /\ hist' = [hist EXCEPT !.returned.rows = Append(@, idx)]
                /\ pc' = "idle"
                /\ UNCHANGED <<outer, inner, mht, msg>>
           ELSE /\ SetBackend([ReleaseCurrent(Backend) EXCEPT
                                 !.hist.returned.closed = (@ \/ g # NULL)])
                /\ msg' = MessagesAfterReleaseCurrent
                /\ pc' = "fetch"
    /\ UNCHANGED <<config, aside, clghj, dprog, srvq, waitq, respq>>

(* ------------------------------------------------------------------ *)
(* gpuhashjoin_rescan and gpuhashjoin_end                               *)
(* ------------------------------------------------------------------ *)
\* the call: the executor has set the chgParam of the child plans;
\* the current session is released
RescanBegin ==
    /\ pc \in {"idle", "eof"}
    /\ hist.rescans < MaxRescans
    /\ \E ichg \in BOOLEAN, ochg \in BOOLEAN :
         LET h == ReleaseCurrent(Backend)
         IN  SetBackend([h EXCEPT !.inner.chg = (@ \/ ichg),
                                  !.outer.chg = (@ \/ ochg),
                                  !.hist.rescans = @ + 1])
    /\ msg' = MessagesAfterReleaseCurrent
    /\ pc' = "rescan"
    /\ UNCHANGED <<config, aside, clghj, dprog, srvq, waitq, respq>>

EndBegin ==
    /\ pc \in {"idle", "eof"}
    /\ SetBackend(ReleaseCurrent(Backend))
    /\ msg' = MessagesAfterReleaseCurrent
    /\ pc' = "end"
    /\ UNCHANGED <<config, aside, clghj, dprog, srvq, waitq, respq>>

\* a round that dequeues a reply and does not put it
DrainKeep ==
    /\ pc \in {"rescan", "end"}
    /\ ghjs.num_running > 0
    /\ respq # <<>>
    /\ respq' = Tail(respq)
    /\ ghjs' = [ghjs EXCEPT !.num_running = @ - 1]
    /\ UNCHANGED <<config, aside, outer, inner, clghj, dprog, srvq, waitq, pc,
                   hist, msg, mht>>

\* one round of "while (num_running > 0)": dequeue a reply and put it
Drain ==
    /\ pc \in {"rescan", "end"}
    /\ ghjs.num_running > 0
    /\ respq # <<>>
    /\ LET g == Head(respq)
       IN  /\ msg' = [msg EXCEPT ![g] = ReleasedMessage(@)]
           /\ mht' = pgstrom_release_gpuhashjoin(msg[g], mht)
    /\ respq' = Tail(respq)
    /\ ghjs' = [ghjs EXCEPT !.num_running = @ - 1]
    /\ UNCHANGED <<config, aside, outer, inner, clghj, dprog, srvq, waitq, pc, hist>>

\* the rest of gpuhashjoin_rescan
RescanTables(h) ==
    LET t == h.ghjs.mhtables
    IN  IF t # NULL /\ (h.mht[t].is_divided \/ ~h.inner.chg)
        THEN [h EXCEPT
                !.inner = IF ~h.inner.chg THEN multihash_rescan ELSE @,
                !.mht = multihash_put_tables(@, t),
                !.ghjs.mhtables = NULL]
        ELSE h

RescanOuter(h) ==
    [h EXCEPT !.ghjs.outer_done = FALSE,
              !.ghjs.outer_overflow = NULL,
              !.outer = IF ~h.outer.chg THEN ExecReScanOuter ELSE @]

RescanFinish ==
    /\ pc = "rescan"
    /\ ghjs.num_running = 0
    /\ LET t == ghjs.mhtables
           h == RescanOuter(RescanTables(Backend))
       IN  SetBackend([h EXCEPT
             !.hist.joined = InitHist.joined,
             !.hist.last_rescan =
                 [done |-> TRUE,
                  had_table |-> (t # NULL),
                  chg |-> inner.chg,
                  divided |-> (t # NULL /\ mht[t].is_divided),
                  kept |-> (h.ghjs.mhtables # NULL),
                  outer_restarted |->
                      (~h.ghjs.outer_done /\ h.ghjs.outer_overflow = NULL
                       /\ (h.outer.pos = 1 \/ h.outer.chg))]])
    /\ pc' = "idle"
    /\ UNCHANGED <<config, aside, msg, clghj, dprog, srvq, waitq, respq>>

\* the rest of gpuhashjoin_end
EndFinish ==
    /\ pc = "end"
    /\ ghjs.num_running = 0
    /\ mht' = IF ghjs.mhtables # NULL
              THEN multihash_put_tables(mht, ghjs.mhtables) ELSE mht
    /\ pc' = "ended"
    /\ UNCHANGED <<config, aside, ghjs, outer, inner, hist, msg, clghj, dprog, srvq,
                   waitq, respq>>

\* pgstrom_dequeue_message gives up: "message queue wait timeout"
\* a wait that gives up and is taken for the reply of a session
DequeueTimeoutCompletes ==
    /\ hist' = [Fault(hist) EXCEPT
                  !.timeout = IF pc \in {"rescan", "end"} THEN pc ELSE "fetch"]
    /\ pc' = pc
    /\ ghjs' = [ghjs EXCEPT !.num_running = @ - 1]

\* elog(ERROR, "message queue wait timeout"): nothing is dequeued, the
\* call is left
DequeueTimeoutError ==
    /\ hist' = [Fault(hist) EXCEPT
                  !.timeout = IF pc \in {"rescan", "end"} THEN pc ELSE "fetch"]
    /\ pc' = "error"
    /\ ghjs' = ghjs

DequeueTimeout ==
    /\ \/ PastFetchLoop /\ ghjs.ready_pscans = <<>>
       \/ pc \in {"rescan", "end"}
    /\ ghjs.num_running > 0
    /\ respq = <<>>
    /\ MayFail
    /\ DequeueTimeoutError
    /\ UNCHANGED <<config, aside, outer, inner, mht, msg, clghj, dprog,
                   srvq, waitq, respq>>


(* ------------------------------------------------------------------ *)
(* clserv_process_gpuhashjoin                                           *)
(* ------------------------------------------------------------------ *)
\* a backend error aborts the query: the run ends there
Alive == pc # "error"

\* the steps of the handler that can fail, in source order
ProcessSteps ==
    << "calloc", "program", "hash_create", "hash_write", "kern_main",
       "dest_format", "kern_proj", "m_join", "m_dstore", "m_ktoast",
       "m_rowmap", "m_kresult", "send_join", "send_rowmap", "send_dstore",
       "send_dest", "wgsize_main", "setarg_main", "enqueue_main",
       "wgsize_proj", "setarg_proj", "enqueue_proj", "read_status",
       "read_result", "set_callback" >>

StepIndex(f) == CHOOSE i \in 1..Len(ProcessSteps) : ProcessSteps[i] = f

\* the device object (or the events) a step leaves in clghj when it succeeds
StepObject(f) ==
    CASE f = "program" -> "program"
      [] f = "hash_write" -> "m_hash"
      [] f \in {"kern_main", "kern_proj", "m_join", "m_dstore", "m_ktoast",
                "m_rowmap", "m_kresult"} -> f
      [] f \in {"send_join", "send_rowmap", "send_dstore", "send_dest",
                "enqueue_main", "enqueue_proj", "read_status",
                "read_result"} -> "events"
      [] OTHER -> "none"

\* whether the handler runs step f for message m with hash buffer tb
StepApplies(f, m, tb) ==
    CASE f \in {"hash_create", "hash_write"} -> tb.n_kernel = 0
      [] f = "m_ktoast" -> m.ktoast
      [] f \in {"m_rowmap", "send_rowmap"} -> m.nvalids >= 0
      [] OTHER -> TRUE

\* whether step f can fail: the destination format is unexpected only if
\* it is neither of the two formats
StepCanFail(f, m) ==
    IF f = "dest_format"
    THEN m.format \notin {KDS_FORMAT_TUPSLOT, KDS_FORMAT_ROW_FLAT}
    ELSE TRUE

\* what clghj holds when step f fails: what the earlier steps left.  A
\* session that found the hash buffer resident holds its reference too.
ObjectsBefore(f, m, tb) ==
    LET own == {StepObject(ProcessSteps[i]) :
                  i \in {j \in 1..(StepIndex(f) - 1) :
                           StepApplies(ProcessSteps[j], m, tb)}} \ {"none"}
    IN  IF StepIndex(f) > StepIndex("hash_write")
        THEN own \cup {"m_hash"} ELSE own

\* everything a session that was submitted completely holds
AllObjects(m) ==
    {"program", "m_hash", "kern_main", "kern_proj", "m_join", "m_dstore",
     "m_kresult", "events"}
    \cup (IF m.ktoast THEN {"m_ktoast"} ELSE {})
    \cup (IF m.nvalids >= 0 THEN {"m_rowmap"} ELSE {})

\* the value of rc when step f jumps to the error label: the steps that
\* test something else than rc leave the CL_SUCCESS of the call before
ErrorCodeAt(f) ==
    CASE f = "calloc" -> CL_OUT_OF_HOST_MEMORY
      [] f = "program" -> CL_BUILD_PROGRAM_FAILURE
      [] f \in {"dest_format", "wgsize_main", "wgsize_proj"} -> CL_SUCCESS
      [] OTHER -> CL_OUT_OF_RESOURCES

\* what the error label releases
ErrorPathReleases ==
    {"events", "m_kresult", "m_ktoast", "m_dstore", "m_join", "m_hash",
     "kern_main", "kern_proj", "program"}

\* a handler that transfers the hash buffer for every session
AcquireHashAlways(tb) ==
    [tb EXCEPT !.m_hash = TRUE, !.ev_hash = tb.nwrites + 1,
               !.nwrites = @ + 1, !.n_kernel = @ + 1]

\* the section under mhtables->lock: the first session loads the hash
\* buffer, the others share it
AcquireHash(tb) ==
    IF tb.n_kernel = 0
    THEN [tb EXCEPT !.m_hash = TRUE, !.ev_hash = tb.nwrites + 1,
                    !.nwrites = @ + 1, !.n_kernel = @ + 1]
    ELSE [tb EXCEPT !.n_kernel = @ + 1]

\* a release that leaves the device buffer and the event in place
ReleaseHashKeep(tb) == [tb EXCEPT !.n_kernel = @ - 1]

\* "Unload hashjoin-table, if no longer referenced"
ReleaseHash(tb) ==
    IF tb.n_kernel - 1 = 0
    THEN [tb EXCEPT !.n_kernel = 0, !.m_hash = FALSE, !.ev_hash = NULL]
    ELSE [tb EXCEPT !.n_kernel = @ - 1]

\* a reply that leaves in msg.errcode what the kernel reported
ReplyKernelErrcode(m, errcode) ==
    [m EXCEPT !.st = "replied", !.n_reply = @ + 1]

\* pgstrom_reply_message
Reply(m, errcode) ==
    [m EXCEPT !.st = "replied", !.errcode = errcode, !.n_reply = @ + 1]

\* the commands a run of the handler has enqueued before step f
Enqueued(m, f) ==
    [m EXCEPT
       !.n_send = IF StepIndex(f) > StepIndex("send_dstore") THEN @ + 1 ELSE @,
       !.n_main = IF StepIndex(f) > StepIndex("enqueue_main") THEN @ + 1 ELSE @,
       !.n_proj = IF StepIndex(f) > StepIndex("enqueue_proj") THEN @ + 1 ELSE @]

\* the handler fails at step f
ProcessFailure(s, f) ==
    LET m == [msg[s] EXCEPT !.n_proc = @ + 1, !.proc_failed = TRUE]
        t == m.mh
        held == IF f = "calloc" THEN {} ELSE ObjectsBefore(f, m, mht[t])
        tb1 == IF "m_hash" \in held THEN AcquireHash(mht[t]) ELSE mht[t]
        tb2 == IF "m_hash" \in held THEN ReleaseHash(tb1) ELSE tb1
    IN  /\ msg' = [msg EXCEPT ![s] = Reply(Enqueued(m, f), ErrorCodeAt(f))]
        /\ mht' = [mht EXCEPT ![t] = tb2]
        /\ clghj' = [clghj EXCEPT ![s] =
                        [NoClstate EXCEPT !.objs = held \ ErrorPathReleases]]
        /\ respq' = Append(respq, s)
        /\ hist' = IF f = "program" THEN hist ELSE Fault(hist)
        /\ UNCHANGED waitq

\* a handler that, for a retried session, enqueues the projection kernel
\* and the result transfers only
ProcessSuccessProjectionOnly(s) ==
    LET again == msg[s].n_retry > 0
        m == [msg[s] EXCEPT !.n_proc = @ + 1, !.st = "running",
                            !.n_send = IF again THEN @ ELSE @ + 1,
                            !.n_main = IF again THEN @ ELSE @ + 1,
                            !.n_proj = @ + 1]
        t == m.mh
        tb == AcquireHash(mht[t])
    IN  /\ msg' = [msg EXCEPT ![s] = m]
        /\ mht' = [mht EXCEPT ![t] = tb]
        /\ clghj' = [clghj EXCEPT ![s] =
                        [objs |-> AllObjects(m), ev0 |-> tb.ev_hash,
                         hash_loader |-> (mht[t].n_kernel = 0)]]
        /\ UNCHANGED <<respq, waitq, hist>>

\* the handler submits everything and registers clserv_respond_hashjoin
ProcessSuccess(s) ==
    LET m == [msg[s] EXCEPT !.n_proc = @ + 1, !.st = "running",
                            !.n_send = @ + 1, !.n_main = @ + 1,
                            !.n_proj = @ + 1]
        t == m.mh
        tb == AcquireHash(mht[t])
    IN  /\ msg' = [msg EXCEPT ![s] = m]
        /\ mht' = [mht EXCEPT ![t] = tb]
        /\ clghj' = [clghj EXCEPT ![s] =
                        [objs |-> AllObjects(m), ev0 |-> tb.ev_hash,
                         hash_loader |-> (mht[t].n_kernel = 0)]]
        /\ UNCHANGED <<respq, waitq, hist>>

\* the program is under asynchronous build: the message is kept
ProcessDeferred(s) ==
    /\ msg' = [msg EXCEPT ![s].st = "waiting", ![s].n_proc = @ + 1]
    /\ waitq' = Append(waitq, s)
    /\ UNCHANGED <<mht, clghj, respq, hist>>

FailPoints(s) ==
    {f \in {ProcessSteps[i] : i \in 1..Len(ProcessSteps)} :
        /\ MayFail
        /\ f # "program"
        /\ StepApplies(f, msg[s], mht[msg[s].mh])
        /\ StepCanFail(f, msg[s])}

clserv_process_gpuhashjoin ==
    /\ Alive
    /\ srvq # <<>>
    /\ LET s == Head(srvq)
       IN  \E f \in FailPoints(s) \cup {"none"} :
             IF f = "calloc" THEN ProcessFailure(s, f)
             ELSE IF dprog = "building" THEN ProcessDeferred(s)
             ELSE IF dprog = "bad" THEN ProcessFailure(s, "program")
             ELSE IF f = "none" THEN ProcessSuccess(s)
             ELSE ProcessFailure(s, f)
    /\ srvq' = Tail(srvq)
    /\ UNCHANGED <<config, aside, ghjs, outer, inner, dprog, pc>>

\* the asynchronous build of the device program ends; the messages kept
\* meanwhile are enqueued again
BuildDone ==
    /\ Alive
    /\ dprog = "building"
    /\ \E ok \in Outcomes :
         /\ dprog' = IF ok THEN "ready" ELSE "bad"
         /\ hist' = IF ok THEN hist ELSE Fault(hist)
    /\ srvq' = srvq \o waitq
    /\ waitq' = <<>>
    /\ msg' = [s \in SessionIds |->
                 IF msg[s].st = "waiting" THEN [msg[s] EXCEPT !.st = "queued"]
                 ELSE msg[s]]
    /\ UNCHANGED <<config, aside, ghjs, outer, inner, mht, clghj, respq, pc>>


(* ------------------------------------------------------------------ *)
(* The device, and clserv_respond_hashjoin                              *)
(* ------------------------------------------------------------------ *)
\* what the kernels leave in kern_resultbuf and in the destination
\* store: the number of rows the join produced, and "no space" when the
\* result buffer has fewer rooms
KernelResult(m, chunk) ==
    LET n == TrueCount(chunk, m.rows)
    IN  [errcode |-> IF n > m.kres_nrooms THEN StromError_DataStoreNoSpace
                     ELSE StromError_Success,
         nitems |-> n,
         usage |-> 2 * n]

\* rooms of the replacement store: the row-flat store gets
\* (required - head_len) / sizeof(kern_rowitem) rooms, where required
\* counts nitems row items and the bytes in use (here in row items)
RetryRooms(format, nitems, usage) ==
    IF format = KDS_FORMAT_TUPSLOT THEN nitems ELSE nitems + usage

\* a retry that keeps the size of the result buffer
RetryMessageSameRooms(m) ==
    [m EXCEPT !.kres_errcode = StromError_Success,
              !.kds_nitems = 0,
              !.kds_usage = 0,
              !.n_retry = @ + 1,
              !.st = "queued"]

\* the retry: a new destination store for the produced number of rows
RetryMessage(m) ==
    [m EXCEPT !.kres_nrooms = m.kds_nitems,
              !.kres_errcode = StromError_Success,
              !.kds_nrooms = RetryRooms(m.format, m.kds_nitems, m.kds_usage),
              !.kds_nitems = 0,
              !.kds_usage = 0,
              !.n_retry = @ + 1,
              !.st = "queued"]

\* the callback of the last event of session s.  outcome: the commands
\* completed ("ok"), a kernel reported another error ("dev_error"), or
\* the event did not reach CL_COMPLETE ("ev_error"); alloc_ok: shared
\* memory for a replacement store is available
clserv_respond_hashjoin(s, outcome, alloc_ok) ==
    LET m0 == msg[s]
        t == m0.mh
        kr == KernelResult(m0, mht[t].chunk)
        m1 == CASE outcome = "ev_error" ->
                     [m0 EXCEPT !.errcode = StromError_OpenCLInternal]
                [] outcome = "dev_error" ->
                     [m0 EXCEPT !.errcode = StromError_DataStoreCorruption,
                                !.kres_errcode = StromError_DataStoreCorruption]
                [] OTHER ->
                     [m0 EXCEPT !.errcode = kr.errcode,
                                !.kres_errcode = kr.errcode,
                                !.kds_nitems = kr.nitems,
                                !.kds_usage = kr.usage]
        retry == m1.errcode = StromError_DataStoreNoSpace
                 /\ m1.format \in {KDS_FORMAT_TUPSLOT, KDS_FORMAT_ROW_FLAT}
                 /\ alloc_ok
    IN  /\ clghj' = [clghj EXCEPT ![s] = NoClstate]
        /\ mht' = [mht EXCEPT ![t] = ReleaseHash(@)]
        /\ IF retry
           THEN /\ msg' = [msg EXCEPT ![s] = RetryMessage(m1)]
                /\ srvq' = Append(srvq, s)
                /\ respq' = respq
           ELSE /\ msg' = [msg EXCEPT ![s] =
                     Reply(m1,
                           IF m1.errcode # StromError_DataStoreNoSpace
                           THEN m1.errcode
                           ELSE IF m1.format \notin {KDS_FORMAT_TUPSLOT,
                                                     KDS_FORMAT_ROW_FLAT}
                           THEN StromError_DataStoreCorruption
                           ELSE StromError_OutOfSharedMemory)]
                /\ srvq' = srvq
                /\ respq' = Append(respq, s)
        /\ hist' = IF outcome # "ok"
                       \/ (m1.errcode = StromError_DataStoreNoSpace
                           /\ ~alloc_ok)
                    THEN Fault(hist) ELSE hist

Respond ==
    /\ Alive
    /\ \E s \in SessionIds :
         /\ msg[s].st = "running"
         /\ \E outcome \in (IF MayFail THEN {"ok", "dev_error", "ev_error"}
                            ELSE {"ok"}),
               alloc_ok \in Outcomes :
              clserv_respond_hashjoin(s, outcome, alloc_ok)
    /\ UNCHANGED <<config, aside, ghjs, outer, inner, dprog, waitq, pc>>

(* ------------------------------------------------------------------ *)
(* The specification                                                    *)
(* ------------------------------------------------------------------ *)
\* one scan of the join, with injected failures
Next ==
    \/ ExecCall
    \/ FetchLoop
    \/ FetchResult
    \/ DequeueTimeout
    \/ clserv_process_gpuhashjoin
    \/ BuildDone
    \/ Respond

Spec == Init /\ [][Next]_vars

(* ------------------------------------------------------------------ *)
(* Properties                                                           *)
(* ------------------------------------------------------------------ *)
\* the sessions that exist
Sessions == {s \in SessionIds : msg[s].st # "none"}

\* the rows the join of session s's outer chunk with its hash buffer has
RowsOf(s) == TrueCount(mht[msg[s].mh].chunk, msg[s].rows)

\* C1: when the inner relation comes in K hash buffers, a scan that
\* reaches its end without any failure has joined every outer row with
\* each of the K buffers exactly once, in row-by-row as in bulk outer
\* loading.
C1_EveryChunkJoinedOnce ==
    (pc = "eof" /\ hist.faults = 0) =>
        \A k \in 1..inner_nchunks, r \in OuterRows : hist.joined[k, r] = 1

\* C2: a session whose destination was too small is retried once, with a
\* result buffer and a destination store for the number of rows the join
\* produced; it is never retried again, it is replied once, and unless a
\* failure is injected the reply says success.
C2_OverflowRetriedOnce ==
    \A s \in Sessions :
        /\ msg[s].n_retry <= 1
        /\ msg[s].n_reply <= 1
        /\ msg[s].n_retry = 1 =>
              /\ msg[s].kres_nrooms = RowsOf(s)
              /\ msg[s].kds_nrooms >= RowsOf(s)
        /\ (msg[s].n_retry = 1 /\ msg[s].n_reply = 1 /\ hist.faults = 0) =>
              /\ msg[s].errcode = StromError_Success
              /\ msg[s].kds_nitems = RowsOf(s)

\* a retried session was replied with success
C2_Witness ==
    \E s \in Sessions :
        /\ msg[s].n_retry = 1
        /\ msg[s].n_reply = 1
        /\ msg[s].errcode = StromError_Success
        /\ RowsOf(s) > ResultRooms(Cardinality(msg[s].rows))

\* the sessions of hash buffer t that are submitted and not yet responded
RunningOn(t) == {s \in Sessions : msg[s].st = "running" /\ msg[s].mh = t}

\* C3 as stated: whatever the interleaving of the sessions of one hash
\* buffer, and without any failure, the buffer is written to the device
\* once in total.
C3_HashWrittenOnceInTotal ==
    hist.faults = 0 => \A t \in TableIds : mht[t].nwrites <= 1

\* C3 as amended: the hash buffer is written once per period of
\* residency: it is resident exactly while sessions that use it are
\* running, n_kernel counts them, all of them wait on the event of the
\* one transfer that made it resident, and at most one of them made it.
C3_HashWrittenOncePerResidency ==
    \A t \in TableIds :
        /\ mht[t].n_kernel = Cardinality(RunningOn(t))
        /\ mht[t].m_hash <=> mht[t].n_kernel > 0
        /\ mht[t].m_hash => mht[t].ev_hash = mht[t].nwrites
        /\ \A s \in RunningOn(t) : clghj[s].ev0 = mht[t].ev_hash
        /\ Cardinality({s \in RunningOn(t) : clghj[s].hash_loader}) <= 1

\* two sessions run on a hash buffer that is transferred for the second
\* time, and the one that found it resident waits on that transfer
C3_Witness ==
    \E t \in TableIds :
        /\ mht[t].nwrites = 2
        /\ Cardinality(RunningOn(t)) = 2
        /\ \E s \in RunningOn(t) :
              ~clghj[s].hash_loader /\ clghj[s].ev0 = 2

\* C4: the sessions enqueued and not yet dequeued never exceed
\* pgstrom_max_async_chunks.
C4_RunningWithinLimit ==
    ghjs.num_running <= pgstrom_max_async_chunks

\* C6: a bulk chunk gpuhashjoin_exec_multi returns for a join with
\* host-only clauses reports no row as valid that fails those clauses
\* (nvalids < 0 reports every row of the store as valid).
C6_BulkRowsPassHostClauses ==
    LET b == hist.last_bulk
    IN  (b.sess # NULL /\ host_clauses) =>
            \A i \in 0..(b.nitems - 1) :
                (b.nvalids < 0 \/ \E j \in 1..b.nvalids : b.rindex[j] = i)
                    => HostQual(b.sess, i)

\* C7: a session clserv_process_gpuhashjoin failed on is replied with an
\* error code other than StromError_Success and is never handed to the
\* consumer; so is a session whose device run reported an error other
\* than the overflow.
C7_FailureRepliesError ==
    \A s \in Sessions :
        /\ msg[s].proc_failed =>
              msg[s].errcode # StromError_Success /\ msg[s].n_handed = 0
        /\ (msg[s].n_reply = 1
            /\ msg[s].kres_errcode \notin {StromError_Success,
                                          StromError_DataStoreNoSpace}) =>
              msg[s].errcode # StromError_Success /\ msg[s].n_handed = 0

\* C8: a session clserv_process_gpuhashjoin failed on holds no device
\* object any more once it is replied, and its share of n_kernel is
\* given back.
C8_FailureReleasesEverything ==
    \A s \in Sessions :
        msg[s].proc_failed =>
            /\ clghj[s].objs = {}
            /\ mht[msg[s].mh].n_kernel = Cardinality(RunningOn(msg[s].mh))

\* session s was submitted completely (at least) once since its last retry
Submitted(s) ==
    (msg[s].st = "running" \/ msg[s].n_reply = 1) /\ ~msg[s].proc_failed

\* C9 as stated: on an overflow retry the main kernel and the input
\* transfers of the session are not executed a second time.
C9_RetrySkipsMainKernel ==
    \A s \in Sessions : msg[s].n_main <= 1 /\ msg[s].n_send <= 1

\* C9 as amended: the retry submits the whole session again; once the
\* handler has run again, the input transfers, the main kernel and the
\* projection kernel were all enqueued twice, and never more often.
C9_RetryResubmitsEverything ==
    \A s \in Sessions :
        /\ Submitted(s) =>
              /\ msg[s].n_send = msg[s].n_retry + 1
              /\ msg[s].n_main = msg[s].n_retry + 1
              /\ msg[s].n_proj = msg[s].n_retry + 1
        /\ msg[s].n_main <= 2

\* a retried session ran completely a second time and was replied
C9_Witness ==
    \E s \in Sessions :
        /\ msg[s].n_retry = 1
        /\ msg[s].st = "replied"
        /\ msg[s].errcode = StromError_Success
        /\ msg[s].n_main = 2
        /\ msg[s].n_send = 2

\* no session is handed over twice; end-of-data is reported only when
\* nothing is in flight or ready, and then every session was handed over
C10_Handed ==
    /\ \A s \in Sessions : msg[s].n_handed <= 1
    /\ pc = "eof" =>
          /\ ghjs.num_running = 0
          /\ ghjs.ready_pscans = <<>>
          /\ respq = <<>>
          /\ \A s \in Sessions : msg[s].n_handed = 1

\* the session handed over is the one that was replied first among
\* those not handed over yet
C10_InReplyOrder ==
    \A s \in SessionIds :
        msg'[s].n_handed > msg[s].n_handed =>
            s = Head(ghjs.ready_pscans \o respq)

\* C10: each enqueued session is dequeued and handed to the consumer
\* once, in the order the sessions were replied (not the order they were
\* enqueued), and end-of-data is reported only when no session is in
\* flight and none is ready.
C10_HandedOnceInReplyOrder ==
    [](C10_Handed) /\ [][C10_InReplyOrder]_vars

\* end-of-data after sessions were handed over in another order than
\* they were enqueued
C10_Witness ==
    /\ pc = "eof"
    /\ hist.nsess >= 2
    /\ hist.reordered

\* the rows 0..upto-1 of session s's destination store that pass the
\* host-only clauses, in the order of the store
PassingRows(s, upto) ==
    SelectSeq([i \in 1..upto |-> i - 1],
              LAMBDA i : ~host_clauses \/ HostQual(s, i))

\* C11: gpuhashjoin_exec returns the rows of a session's destination
\* store that pass the host-only clauses once each and in the order of
\* the store, skips the others, releases the session only after its last
\* row was examined, and holds no session while it waits for the next.
C11_RowsReturnedOnceInOrder ==
    LET rt == hist.returned
    IN  /\ rt.sess # NULL =>
              IF rt.closed
              THEN /\ rt.rows = PassingRows(rt.sess, msg[rt.sess].kds_nitems)
                   /\ msg[rt.sess].st = "released"
                   /\ ghjs.curr_ghjoin # rt.sess
              ELSE /\ rt.rows = PassingRows(rt.sess, ghjs.curr_index)
                   /\ ghjs.curr_ghjoin = rt.sess
                   /\ msg[rt.sess].st = "held"
        /\ (~exec_multi /\ pc \in {"fetch", "fetched", "eof"}) =>
              /\ ghjs.curr_ghjoin = NULL
              /\ ghjs.curr_index = 0
              /\ \A s \in Sessions : msg[s].st # "held"

\* a session of two rows was released after one row was skipped and the
\* other returned
C11_Witness ==
    LET rt == hist.returned
    IN  /\ host_clauses
        /\ rt.sess # NULL
        /\ rt.closed
        /\ msg[rt.sess].kds_nitems = 2
        /\ Len(rt.rows) = 1

\* C12: a hash buffer is freed only when its refcnt reached zero and no
\* device session references it: n_kernel > 0 implies refcnt > 0, a freed
\* buffer has n_kernel = 0 and no device copy (the Assert of
\* multihash_put_tables holds), and no reference is taken or dropped on a
\* freed buffer.
C12_FreedOnlyUnreferenced ==
    \A t \in TableIds :
        /\ mht[t].refcnt >= 0
        /\ mht[t].n_kernel > 0 => (mht[t].refcnt > 0 /\ ~mht[t].freed)
        /\ mht[t].freed =>
              /\ mht[t].refcnt = 0
              /\ mht[t].n_kernel = 0
              /\ ~mht[t].m_hash
              /\ mht[t].nfree = 1
        /\ (mht[t].built /\ ~mht[t].freed) => mht[t].refcnt > 0

\* a buffer that was on the device is freed by the release of its last
\* session, after the node has moved on to the next buffer
C12_Witness ==
    \E t \in TableIds :
        /\ mht[t].freed
        /\ mht[t].nwrites > 0
        /\ ghjs.mhtables \notin {NULL, t}

\* the life of the node with rescans and its end, without failures
InitLife ==
    /\ outer_bulkload \in BOOLEAN
    /\ exec_multi \in BOOLEAN
    /\ host_clauses = FALSE
    /\ inner_nchunks \in 1..MaxInnerChunks
    /\ InitState
    /\ hist = [InitHist EXCEPT !.faults = MaxFaults]
    /\ AsideIdle

NextLife ==
    \/ ExecCall
    \/ FetchLoop
    \/ FetchResult
    \/ RescanBegin
    \/ RescanFinish
    \/ EndBegin
    \/ EndFinish
    \/ Drain
    \/ clserv_process_gpuhashjoin
    \/ BuildDone
    \/ Respond

SpecLife == InitLife /\ [][NextLife]_vars

\* the sessions that hold a share of the device copy of hash buffer t: they
\* passed the section under mhtables->lock of clserv_process_gpuhashjoin
\* and neither clserv_respond_hashjoin nor the error label has run
Resident(t) ==
    {s \in SessionIds : msg[s].mh = t /\ "m_hash" \in clghj[s].objs}

\* C32: for every hash buffer, m_hash and ev_hash are set exactly when
\* n_kernel > 0, n_kernel is the number of sessions that hold a share of
\* the device copy, and n_kernel is never negative
C32_KernelCountIsResidents ==
    \A t \in TableIds :
        /\ mht[t].n_kernel >= 0
        /\ mht[t].m_hash <=> mht[t].n_kernel > 0
        /\ mht[t].ev_hash # NULL <=> mht[t].n_kernel > 0
        /\ mht[t].n_kernel = Cardinality(Resident(t))

\* two sessions share the device copy of one hash buffer
C32_Witness ==
    \E t \in TableIds :
        /\ mht[t].n_kernel = 2
        /\ Cardinality(Resident(t)) = 2
        /\ mht[t].m_hash

\* every session that was created has been released, once
AllReleased(m, g) ==
    /\ \A s \in SessionIds :
          m[s].st # "none" => (m[s].st = "released" /\ m[s].n_put = 1)
    /\ g.num_running = 0
    /\ g.curr_ghjoin = NULL
    /\ g.ready_pscans = <<>>

\* C33: no session is released twice; when gpuhashjoin_end or
\* gpuhashjoin_rescan has run, every session that was created has been
\* released once, num_running is 0, there is no current session and
\* ready_pscans is empty; and ready_pscans is empty whenever
\* pgstrom_fetch_gpuhashjoin is not running
C33_AllReleasedAfterEnd ==
    /\ [](/\ \A s \in SessionIds : msg[s].n_put <= 1
          /\ pc = "ended" => AllReleased(msg, ghjs)
          /\ pc \in {"idle", "eof", "rescan", "end", "ended"} =>
                ghjs.ready_pscans = <<>>)
    /\ [][(pc = "rescan" /\ pc' = "idle") => AllReleased(msg', ghjs')]_vars

\* the node has ended after a rescan; one session was handed to the
\* executor and one was still running when gpuhashjoin_end or
\* gpuhashjoin_rescan was called
C33_Witness ==
    /\ pc = "ended"
    /\ hist.rescans = 1
    /\ \E s, t \in SessionIds :
          /\ msg[s].st = "released" /\ msg[s].n_handed = 1
          /\ msg[t].st = "released" /\ msg[t].n_handed = 0
          /\ msg[t].n_reply = 1

\* the outer rows fetched since the outer scan was started last, and the
\* number of sessions of this pass whose chunk holds outer row r
FetchedRows == IF outer.chg THEN {} ELSE 1..(outer.pos - 1)

RECURSIVE SentUpTo(_, _)
SentUpTo(r, k) == IF k = 0 THEN 0 ELSE hist.joined[k, r] + SentUpTo(r, k - 1)

SentIn(r) == SentUpTo(r, MaxInnerChunks)

\* C31: in row-by-row loading every outer row fetched in the current pass
\* is in the chunk of exactly one session or is the row kept in
\* outer_overflow, which is the row fetched last; a row not fetched is in
\* neither; and the row kept in outer_overflow is the first row of the
\* chunk of the session created next
C31_FetchedRowInOneChunk ==
    /\ [](( ~outer_bulkload /\ pc # "rescan") =>
            /\ \A r \in OuterRows :
                  /\ SentIn(r) <= 1
                  /\ r \in FetchedRows =>
                        ((SentIn(r) = 1) <=> (ghjs.outer_overflow # r))
                  /\ r \notin FetchedRows =>
                        (SentIn(r) = 0 /\ ghjs.outer_overflow # r)
            /\ ghjs.outer_overflow # NULL =>
                  ghjs.outer_overflow = outer.pos - 1)
    /\ [][\A s \in SessionIds :
            (/\ ~outer_bulkload
             /\ ghjs.outer_overflow # NULL
             /\ msg[s].st = "none"
             /\ msg'[s].st # "none")
            => /\ ghjs.outer_overflow \in msg'[s].rows
               /\ \A r \in msg'[s].rows : r >= ghjs.outer_overflow]_vars

\* the second outer row did not fit into the first chunk and was sent in
\* the chunk of a second session, after which the outer relation ended
C31_Witness ==
    /\ ~outer_bulkload
    /\ ghjs.outer_done
    /\ ghjs.outer_overflow = NULL
    /\ \E s, t \in SessionIds :
          /\ msg[s].st # "none" /\ msg[t].st # "none"
          /\ 1 \in msg[s].rows
          /\ NOuterRows \in msg[t].rows
          /\ NOuterRows \notin msg[s].rows
          /\ hist.joined[1, NOuterRows] = 1

\* C5: gpuhashjoin_rescan keeps the hash buffer exactly when the inner
\* plan has no changed parameter and the buffer is not divided, releases
\* it otherwise, and restarts the outer scan in every case.
C5_RescanKeepsUnchangedUndivided ==
    LET r == hist.last_rescan
    IN  r.done =>
            /\ r.had_table => (r.kept <=> (~r.chg /\ ~r.divided))
            /\ r.outer_restarted

\* the sessions that hold a reference to hash buffer t
LiveOn(t) ==
    {s \in SessionIds : msg[s].mh = t /\ msg[s].st \notin {"none", "released"}}

\* C13: the refcnt of a hash buffer counts the reference of the node
\* (while the buffer is its current one) and one reference per session
\* from its creation to its release, whatever n_kernel is; the buffer is
\* freed exactly when that count reaches zero, once; after gpuhashjoin_end
\* every buffer that was built is freed.
C13_OneReferencePerSession ==
    /\ \A t \in TableIds :
          mht[t].built =>
              /\ mht[t].refcnt =
                    Cardinality(LiveOn(t))
                    + (IF ghjs.mhtables = t /\ pc # "ended" THEN 1 ELSE 0)
              /\ mht[t].freed <=> mht[t].refcnt = 0
              /\ mht[t].nfree = IF mht[t].freed THEN 1 ELSE 0
    /\ pc = "ended" =>
          \A t \in TableIds : mht[t].built => mht[t].freed

\* the node has ended after two hash buffers were built, used on the
\* device and freed
C13_Witness ==
    /\ pc = "ended"
    /\ hist.ntables >= 2
    /\ \A t \in 1..hist.ntables : mht[t].freed /\ mht[t].nwrites > 0


(* ------------------------------------------------------------------ *)
(* The device side of a session: the commands clserv_process_gpuhashjoin *)
(* enqueues, each with the events it waits for.  The device may start   *)
(* any command whose wait list is complete (an in-order queue is one of *)
(* the schedules this allows).                                          *)
(* ------------------------------------------------------------------ *)
DevSessions == 1..MaxDevSessions

\* the steps of the handler that enqueue a device command
IsCommand(f) == f = "hash_write" \/ StepObject(f) = "events"

\* the commands the handler enqueues for a session, in source order
CommandSteps(rowmap, n_kernel) ==
    SelectSeq(ProcessSteps,
              LAMBDA f : /\ IsCommand(f)
                         /\ StepApplies(f, [NoMessage EXCEPT !.nvalids =
                                               IF rowmap THEN 0 ELSE -1],
                                        [NoTable EXCEPT !.n_kernel = n_kernel]))

Range(q) == {q[i] : i \in 1..Len(q)}

\* a main kernel that waits for the session's own transfers only
WaitListOwnOnly(f, s, before) ==
    CASE f = "enqueue_main" -> {e \in Range(before) : e[1] = s}
      [] f \in {"enqueue_proj", "read_status", "read_result"} ->
             {before[Len(before)]}
      [] OTHER -> {}

\* event_wait_list of the command of step f of session s, when
\* clghj->events holds "before"
WaitList(f, s, before) ==
    CASE f = "enqueue_main" -> Range(before)
      [] f \in {"enqueue_proj", "read_status", "read_result"} ->
             {before[Len(before)]}
      [] OTHER -> {}

\* clghj->events after the handler enqueued everything: a session that
\* finds the hash buffer resident puts mhtables->ev_hash first
EventsOf(s, d) ==
    LET own == [i \in 1..Len(CommandSteps(d.rowmap[s], d.n_kernel)) |->
                    <<s, CommandSteps(d.rowmap[s], d.n_kernel)[i]>>]
    IN  IF d.n_kernel = 0 THEN own ELSE <<d.ev_hash>> \o own

\* the position of event e in a sequence of events
EventIndex(evs, e) == CHOOSE i \in 1..Len(evs) : evs[i] = e

\* the handler runs to its end for session s
DevSubmit(s) ==
    LET evs == EventsOf(s, devq)
        own == {e \in Range(evs) : e[1] = s}
    IN  /\ devq.events[s] = <<>>
        /\ devq' = [devq EXCEPT
              !.events[s] = evs,
              !.loader[s] = IF devq.n_kernel = 0 THEN s ELSE devq.ev_hash[1],
              !.ev_hash = IF devq.n_kernel = 0 THEN evs[1] ELSE @,
              !.n_kernel = @ + 1,
              !.wait = [e \in (DOMAIN @) \cup own |->
                          IF e \in own
                          THEN WaitList(e[2], s,
                                        SubSeq(evs, 1, EventIndex(evs, e) - 1))
                          ELSE @[e]],
              !.state = [e \in (DOMAIN @) \cup own |->
                          IF e \in own THEN "queued" ELSE @[e]]]
        /\ UNCHANGED <<scan, aside_devq>>

\* the device starts a command all events of whose wait list are complete
DevStart(e) ==
    /\ devq.state[e] = "queued"
    /\ \A w \in devq.wait[e] : devq.state[w] = "complete"
    /\ devq' = [devq EXCEPT !.state[e] = "running"]
    /\ UNCHANGED <<scan, aside_devq>>

DevComplete(e) ==
    /\ devq.state[e] = "running"
    /\ devq' = [devq EXCEPT !.state[e] = "complete"]
    /\ UNCHANGED <<scan, aside_devq>>

\* clserv_respond_hashjoin, registered on the last event of the session,
\* is called, and gives the session's share of the hash buffer back
DevCallback(s) ==
    /\ devq.events[s] # <<>>
    /\ s \notin devq.called
    /\ devq.state[devq.events[s][Len(devq.events[s])]] = "complete"
    /\ devq' = [devq EXCEPT
          !.called = @ \cup {s},
          !.n_kernel = @ - 1,
          !.ev_hash = IF devq.n_kernel = 1 THEN NULL ELSE @]
    /\ UNCHANGED <<scan, aside_devq>>

InitDev ==
    /\ outer_bulkload = FALSE
    /\ exec_multi = FALSE
    /\ host_clauses = FALSE
    /\ inner_nchunks = 1
    /\ InitState
    /\ hist = InitHist
    /\ bld = NoBuild
    /\ pscan = NoPscan
    /\ kern = NoKern
    /\ preagg = NoPreagg
    /\ \E rm \in [DevSessions -> BOOLEAN] :
          devq = [NoDevice EXCEPT !.rowmap = rm,
                                  !.events = [s \in DevSessions |-> <<>>],
                                  !.loader = [s \in DevSessions |-> NULL]]

NextDev ==
    \/ \E s \in DevSessions : DevSubmit(s)
    \/ \E e \in DOMAIN devq.state : DevStart(e)
    \/ \E e \in DOMAIN devq.state : DevComplete(e)
    \/ \E s \in DevSessions : DevCallback(s)

SpecDev == InitDev /\ [][NextDev]_vars

Begun(e) == devq.state[e] \in {"running", "complete"}
Ended(e) == devq.state[e] = "complete"

\* the position of the command of step f in what session s enqueued
\* (0: the session did not enqueue it)
EnqueuedAt(s, f) ==
    IF <<s, f>> \in Range(devq.events[s])
    THEN EventIndex(devq.events[s], <<s, f>>) ELSE 0

\* C14: the commands of a session are enqueued in the order hash-buffer
\* transfer, input transfers, main kernel, projection kernel, status
\* read-back, row read-back; the main kernel does not start before the
\* transfer that filled the hash buffer the session uses (its own or
\* another session's) and the session's input transfers are complete, the
\* projection kernel not before the main kernel ended, the status
\* read-back not before the projection kernel ended, the row read-back not
\* before the status read-back ended, and the callback is not called
\* before the row read-back ended
C14_CommandsInOrder ==
    \A s \in DevSessions : devq.events[s] # <<>> =>
        /\ \A f \in {"send_join", "send_dstore", "send_dest"} :
              /\ EnqueuedAt(s, f) > EnqueuedAt(s, "hash_write")
              /\ EnqueuedAt(s, f) < EnqueuedAt(s, "enqueue_main")
        /\ EnqueuedAt(s, "send_rowmap") < EnqueuedAt(s, "enqueue_main")
        /\ (EnqueuedAt(s, "send_rowmap") > 0) = devq.rowmap[s]
        /\ EnqueuedAt(s, "enqueue_main") < EnqueuedAt(s, "enqueue_proj")
        /\ EnqueuedAt(s, "enqueue_proj") < EnqueuedAt(s, "read_status")
        /\ EnqueuedAt(s, "read_status") < EnqueuedAt(s, "read_result")
        /\ Begun(<<s, "enqueue_main">>) =>
              /\ Ended(<<devq.loader[s], "hash_write">>)
              /\ \A e \in Range(devq.events[s]) :
                    e[2] \in {"send_join", "send_rowmap", "send_dstore",
                              "send_dest"} => Ended(e)
        /\ Begun(<<s, "enqueue_proj">>) => Ended(<<s, "enqueue_main">>)
        /\ Begun(<<s, "read_status">>) => Ended(<<s, "enqueue_proj">>)
        /\ Begun(<<s, "read_result">>) => Ended(<<s, "read_status">>)
        /\ s \in devq.called => Ended(<<s, "read_result">>)

\* a session that shares the hash buffer another session transferred
\* has started its main kernel while the other session's kernel is not
\* through
C14_Witness ==
    \E s \in DevSessions :
        /\ devq.events[s] # <<>>
        /\ devq.loader[s] # s
        /\ Begun(<<s, "enqueue_main">>)
        /\ ~Ended(<<devq.loader[s], "enqueue_main">>)


(* ------------------------------------------------------------------ *)
(* The MultiHash nodes: multihash_exec_multi of the top node, which     *)
(* runs the node below it first.  Sizes are counted in aligned cells.   *)
(* ------------------------------------------------------------------ *)
Junk == [k |-> "junk"]

\* estimate_hashtable_size: the chunk of one relation, the whole buffer,
\* and the part of it a node may fill (threshold_ratio = ThresholdSize /
\* PlanHashtableSize)
ChunkSize == HashtableHeadLen + EstInnerRows + EstInnerRows * (EntryHeadLen + MaxTupleLen)
PlanHashtableSize == KernHeadLen + NRels * ChunkSize
ThresholdSize(depth) == (NRels - depth + 1) * ChunkSize

\* a test against the whole length of the buffer
OverLength(depth, required, length) == required > length

\* required > mhs->threshold_ratio * mhtables->length
OverThreshold(depth, required, length) ==
    required * PlanHashtableSize > ThresholdSize(depth) * length

EntrySize(row) == EntryHeadLen + row.t_len

\* the kern_hashtable header and its cleared slots
NewHashtable(nslots) ==
    [i \in 1..(HashtableHeadLen + nslots) |->
        IF i <= HashtableHeadLen THEN [k |-> "khtable", nslots |-> nslots]
        ELSE [k |-> "slot", head |-> 0]]

\* cells put at offset off of mem
PutCells(mem, off, cells) ==
    [i \in 1..Len(mem) |->
        IF i > off /\ i <= off + Len(cells) THEN cells[i - off] ELSE mem[i]]

\* an insertion whose slot head and link are positions in the buffer
InsertEntryAbsolute(mem, base, consumed, nslots, row, rowid) ==
    LET slot == base + HashtableHeadLen + (row.hash % nslots) + 1
        hentry == [k |-> "hentry", hash |-> row.hash, rowid |-> rowid,
                   t_len |-> row.t_len, next |-> mem[slot].head]
    IN  [i \in 1..Len(mem) |->
            IF i = slot THEN [k |-> "slot", head |-> base + consumed]
            ELSE IF i = base + consumed + 1 THEN hentry
            ELSE IF i > base + consumed + EntryHeadLen
                    /\ i <= base + consumed + EntrySize(row)
                 THEN [k |-> "htup", data |-> row.data]
            ELSE mem[i]]

\* an insertion that does not link the entry to the chain it heads
InsertEntryUnlinked(mem, base, consumed, nslots, row, rowid) ==
    LET slot == base + HashtableHeadLen + (row.hash % nslots) + 1
        hentry == [k |-> "hentry", hash |-> row.hash, rowid |-> rowid,
                   t_len |-> row.t_len, next |-> 0]
    IN  [i \in 1..Len(mem) |->
            IF i = slot THEN [k |-> "slot", head |-> consumed]
            ELSE IF i = base + consumed + 1 THEN hentry
            ELSE IF i > base + consumed + EntryHeadLen
                    /\ i <= base + consumed + EntrySize(row)
                 THEN [k |-> "htup", data |-> row.data]
            ELSE mem[i]]

\* the entry of a row is written at "consumed" of the table at base and
\* becomes the head of the chain of its slot
InsertEntry(mem, base, consumed, nslots, row, rowid) ==
    LET slot == base + HashtableHeadLen + (row.hash % nslots) + 1
        hentry == [k |-> "hentry", hash |-> row.hash, rowid |-> rowid,
                   t_len |-> row.t_len, next |-> mem[slot].head]
    IN  [i \in 1..Len(mem) |->
            IF i = slot THEN [k |-> "slot", head |-> consumed]
            ELSE IF i = base + consumed + 1 THEN hentry
            ELSE IF i > base + consumed + EntryHeadLen
                    /\ i <= base + consumed + EntrySize(row)
                 THEN [k |-> "htup", data |-> row.data]
            ELSE mem[i]]

\* an expansion that copies the finished tables only
expand_finished_only(b, consumed) ==
    [b EXCEPT !.length = 2 * b.length,
              !.id = b.id + 1,
              !.mem = [i \in 1..(2 * b.length) |->
                          IF i <= b.usage THEN b.mem[i] ELSE Junk]]

\* expand_multihash_tables, when the allocation succeeded: the new buffer
\* is twice the old one and holds a copy of usage + consumed of it
expand_multihash_tables(b, consumed) ==
    [b EXCEPT !.length = 2 * b.length,
              !.id = b.id + 1,
              !.mem = [i \in 1..(2 * b.length) |->
                          IF i <= b.usage + consumed THEN b.mem[i] ELSE Junk]]

\* whether one more allocation of shared memory can succeed
MayAlloc(b) == b.nalloc < MaxAllocs

\* the rows of a table, by their position in the relation
RowIds(rows) == {rows[i].data : i \in 1..Len(rows)}

\* multihash_exec_multi of the top node returns the buffer: which chunk of
\* each depth it holds, and which rows of depth 1 and of the deepest node
\* are in it together, is kept for the record
Deliver(b) ==
    IF b.pc # "returned" THEN b
    ELSE LET new == RowIds(b.mhs[1].fed) \X RowIds(b.mhs[NRels].fed)
         IN  [b EXCEPT !.combos = Append(@, [d \in 1..NRels |->
                                                b.mhs[d].chunkno]),
                       !.pairs = @ \cup new,
                       !.handed = @ \cup {b.mhtables.id},
                       !.dup = @ \/ (new \cap b.pairs # {})]

\* a closing of the table that marks the buffer as divided only while
\* rows of the relation are left
PreloadOutUnlessDone(b) ==
    LET d == b.level
        base == b.mhtables.htable_offset[d]
        tb == [b.mhtables EXCEPT
                 !.usage = @ + b.consumed,
                 !.is_divided = @ \/ ~b.mhs[d].outer_done]
    IN  Deliver([b EXCEPT !.mhtables = tb,
                  !.mhs[d].curr_chunk =
                      SubSeq(b.mhtables.mem, base + 1, base + b.consumed),
                  !.scan_slot = NoRow,
                  !.pc = IF d = 1 THEN "returned" ELSE "upper",
                  !.level = IF d = 1 THEN 0 ELSE d - 1])

\* the label "out" of multihash_preload_khashtable: the table is closed and
\* kept aside as curr_chunk; the node above goes on, the top node returns
PreloadOut(b) ==
    LET d == b.level
        base == b.mhtables.htable_offset[d]
        tb == [b.mhtables EXCEPT
                 !.usage = @ + b.consumed,
                 !.is_divided = @ \/ b.mhs[d].curr_chunk # <<>>
                                  \/ ~b.mhs[d].outer_done]
    IN  Deliver([b EXCEPT !.mhtables = tb,
                  !.mhs[d].curr_chunk =
                      SubSeq(b.mhtables.mem, base + 1, base + b.consumed),
                  !.scan_slot = NoRow,
                  !.pc = IF d = 1 THEN "returned" ELSE "upper",
                  !.level = IF d = 1 THEN 0 ELSE d - 1])

\* multihash_preload_khashtable with scan_forward, up to the row loop.  If
\* the header does not fit, the result of the expansion is stored in the
\* local pointer and overwritten by the old one, which was released: the
\* node loops until the allocation fails, or goes on in released memory
PreloadHeader(b, d) ==
    LET base == b.mhtables.usage
        required == base + HashtableHeadLen + b.nslots
        at == [b EXCEPT !.level = d, !.mhtables.htable_offset[d] = base,
                        !.mhs[d].fed = <<>>, !.mhs[d].chunkno = @ + 1,
                        !.mhs[d].built_at = base,
                        !.ntuples = 0,
                        !.consumed = HashtableHeadLen + b.nslots]
    IN  IF OverThreshold(d, required, b.mhtables.length)
        THEN { [at EXCEPT !.pc = "error",
                   !.error = "No multi-hashtables expandable any more"],
               [at EXCEPT !.pc = "rows", !.mhtables.freed = TRUE] }
        ELSE { [at EXCEPT !.pc = "rows",
                   !.mhtables.mem = PutCells(@, base, NewHashtable(b.nslots))] }

\* multihash_rescan
multihash_rescan_node(m) ==
    [m EXCEPT !.curr_chunk = <<>>, !.outer_done = FALSE,
              !.outer_overflow = NoRow, !.nrows = 0, !.chunkno = 0,
              !.stored = <<>>]

\* a deepest node that builds in the buffer it has handed over before
ReusedBuffer(b) ==
    IF b.mhtables.id \notin b.handed
    THEN [NoBuffer EXCEPT
            !.length = b.hashtable_size,
            !.usage = KernHeadLen,
            !.id = b.nalloc + 1,
            !.mem = [i \in 1..b.hashtable_size |->
                        IF i <= KernHeadLen
                        THEN [k |-> "kern_multihash"] ELSE Junk]]
    ELSE [b.mhtables EXCEPT !.usage = KernHeadLen, !.is_divided = FALSE,
                            !.htable_offset = [d \in 1..NRels |-> 0]]

\* the deepest node allocates and initializes the buffer
FreshBuffer(b) ==
    [NoBuffer EXCEPT
        !.length = b.hashtable_size,
        !.usage = KernHeadLen,
        !.id = b.nalloc + 1,
        !.mem = [i \in 1..b.hashtable_size |->
                    IF i <= KernHeadLen
                    THEN [k |-> "kern_multihash"] ELSE Junk]]

\* a top node that copies its chunk again after the node below it was
\* rescanned, instead of going on with its own scan
ExecMultiKeepChunk(ok) ==
    LET deep == bld.mhs[NRels]
        top == bld.mhs[1]
        rescan == deep.outer_done
        b0 == IF rescan
              THEN [bld EXCEPT !.mhs[NRels] =
                                  [@ EXCEPT !.curr_chunk = <<>>,
                                            !.outer_done = FALSE,
                                            !.outer_overflow = NoRow,
                                            !.nrows = 0, !.chunkno = 0,
                                            !.stored = <<>>],
                               !.scan_forward = (top.curr_chunk = <<>>)]
              ELSE [bld EXCEPT !.scan_forward = (top.curr_chunk = <<>>)]
        fresh == FreshBuffer(bld)
    IN  /\ bld.pc \in {"idle", "returned"}
        /\ IF rescan /\ top.outer_done
           THEN bld' = [bld EXCEPT !.pc = "finished"]
           ELSE IF ~(ok /\ MayAlloc(bld))
           THEN bld' = [bld EXCEPT !.pc = "error",
                                   !.error = "out of shared memory"]
           ELSE bld' \in PreloadHeader([b0 EXCEPT !.mhtables = fresh,
                                                  !.nalloc = @ + 1], NRels)
        /\ UNCHANGED <<scan, aside_bld>>

\* multihash_exec_multi of the top node up to the row loop of the deepest
\* node, which allocates the buffer
ExecMulti(ok) ==
    LET deep == bld.mhs[NRels]
        top == bld.mhs[1]
        rescan == deep.outer_done
        b0 == IF rescan
              THEN [bld EXCEPT !.mhs[NRels] = multihash_rescan_node(@),
                               !.scan_forward = TRUE]
              ELSE [bld EXCEPT !.scan_forward = (top.curr_chunk = <<>>)]
        fresh == FreshBuffer(bld)
    IN  /\ bld.pc \in {"idle", "returned"}
        /\ IF rescan /\ top.outer_done
           THEN bld' = [bld EXCEPT !.pc = "finished"]
           ELSE IF ~(ok /\ MayAlloc(bld))
           THEN bld' = [bld EXCEPT !.pc = "error",
                                   !.error = "out of shared memory"]
           ELSE bld' \in PreloadHeader([b0 EXCEPT !.mhtables = fresh,
                                                  !.nalloc = @ + 1], NRels)
        /\ UNCHANGED <<scan, aside_bld>>

\* the row loop asks the outer plan for a row, or takes the row that did
\* not fit last time; a scan after a rescan returns the rows of the scan
\* before it
RowFetch ==
    LET d == bld.level
        m == bld.mhs[d]
    IN  /\ bld.pc = "rows"
        /\ bld.scan_slot = NoRow
        /\ IF m.outer_overflow # NoRow
           THEN bld' = [bld EXCEPT !.scan_slot = m.outer_overflow,
                                   !.mhs[d].outer_overflow = NoRow]
           ELSE IF m.nrows < Len(m.rel)
           THEN bld' = [bld EXCEPT !.scan_slot = m.rel[m.nrows + 1],
                                   !.mhs[d].nrows = @ + 1]
           ELSE IF m.rel_done
           THEN bld' = PreloadOut([bld EXCEPT !.mhs[d].outer_done = TRUE])
           ELSE \/ /\ m.nrows < MaxBuildRows
                   /\ \E h \in 0..MaxHash, l \in 1..MaxTupleLen :
                         LET row == [hash |-> h * HashStride, t_len |-> l,
                                     data |-> m.nrows + 1]
                         IN  bld' = [bld EXCEPT
                                       !.scan_slot = row,
                                       !.mhs[d].rel = Append(@, row),
                                       !.mhs[d].nrows = @ + 1]
                \/ bld' = PreloadOut([bld EXCEPT !.mhs[d].outer_done = TRUE,
                                                 !.mhs[d].rel_done = TRUE])
        /\ UNCHANGED <<scan, aside_bld>>

\* whether the row in scan_slot fits
RowOver ==
    OverThreshold(bld.level,
                  bld.mhtables.usage + bld.consumed + EntrySize(bld.scan_slot),
                  bld.mhtables.length)

\* the buffer is expanded for the row; if that fails the row is kept as
\* outer_overflow and the buffer is handed on as it is
RowGrow(ok) ==
    /\ bld.pc = "rows"
    /\ bld.scan_slot # NoRow
    /\ RowOver
    /\ IF ok /\ MayAlloc(bld)
       THEN bld' = [bld EXCEPT
                      !.mhtables = expand_multihash_tables(@, bld.consumed),
                      !.hashtable_size = 2 * bld.mhtables.length,
                      !.nalloc = @ + 1,
                      !.grown = @ \cup {"rows"}]
       ELSE bld' = PreloadOut([bld EXCEPT
                      !.mhs[bld.level].outer_overflow = bld.scan_slot])
    /\ UNCHANGED <<scan, aside_bld>>

\* the row is stored
RowStore ==
    LET d == bld.level
        tb == bld.mhtables
    IN  /\ bld.pc = "rows"
        /\ bld.scan_slot # NoRow
        /\ ~RowOver
        /\ bld' = [bld EXCEPT
              !.mhtables.mem =
                  IF tb.freed THEN @
                  ELSE InsertEntry(@, tb.htable_offset[d], bld.consumed,
                                   bld.nslots, bld.scan_slot, bld.ntuples),
              !.consumed = @ + EntrySize(bld.scan_slot),
              !.ntuples = @ + 1,
              !.mhs[d].fed = Append(@, bld.scan_slot),
              !.mhs[d].stored = Append(@, bld.scan_slot.data),
              !.scan_slot = NoRow]
        /\ UNCHANGED <<scan, aside_bld>>

\* the node above the deepest one starts its multihash_preload_khashtable
UpperBegin ==
    /\ bld.pc = "upper"
    /\ IF bld.scan_forward
       THEN bld' \in PreloadHeader(bld, bld.level)
       ELSE bld' = [bld EXCEPT
                      !.pc = "copy",
                      !.mhtables.htable_offset[bld.level] = bld.mhtables.usage]
    /\ UNCHANGED <<scan, aside_bld>>

\* whether curr_chunk fits
ChunkOver ==
    OverThreshold(bld.level,
                  bld.mhtables.usage + Len(bld.mhs[bld.level].curr_chunk),
                  bld.mhtables.length)

\* without scan_forward the buffer is expanded until curr_chunk fits; a
\* failure is an error
ChunkGrow(ok) ==
    /\ bld.pc = "copy"
    /\ ChunkOver
    /\ IF ok /\ MayAlloc(bld)
       THEN bld' = [bld EXCEPT
                      !.mhtables = expand_multihash_tables(@, 0),
                      !.hashtable_size = 2 * bld.mhtables.length,
                      !.nalloc = @ + 1,
                      !.grown = @ \cup {"chunk"}]
       ELSE bld' = [bld EXCEPT
                      !.pc = "error",
                      !.error = "No multi-hashtables expandable any more"]
    /\ UNCHANGED <<scan, aside_bld>>

\* curr_chunk is copied behind the tables of the nodes below
ChunkCopy ==
    LET d == bld.level
        chunk == bld.mhs[d].curr_chunk
    IN  /\ bld.pc = "copy"
        /\ ~ChunkOver
        /\ bld' = Deliver([bld EXCEPT
              !.mhtables.mem = PutCells(@, bld.mhtables.usage, chunk),
              !.mhtables.usage = @ + Len(chunk),
              !.mhtables.is_divided = @ \/ ~bld.mhs[d].outer_done,
              !.pc = IF d = 1 THEN "returned" ELSE "upper",
              !.level = IF d = 1 THEN 0 ELSE d - 1])
        /\ UNCHANGED <<scan, aside_bld>>

\* clserv_process_gpuhashjoin with the buffer that was handed over: the
\* first session chooses the device and loads the buffer, the others
\* retain what the first one has created
ProcessHashBuffer(ok) ==
    LET tb == bld.mhtables
    IN  /\ bld.pc = "returned"
        /\ tb.n_kernel < MaxDevSessions
        /\ tb.n_kernel > 0 => ok
        /\ bld' = IF tb.n_kernel > 0
                  THEN [bld EXCEPT !.mhtables.n_kernel = @ + 1]
                  ELSE IF ok
                  THEN [bld EXCEPT !.mhtables.dindex = 0,
                                   !.mhtables.m_hash = 1,
                                   !.mhtables.ev_hash = 1,
                                   !.mhtables.n_kernel = 1]
                  ELSE [bld EXCEPT !.mhtables.dindex = 0]
        /\ UNCHANGED <<scan, aside_bld>>

\* clserv_respond_hashjoin: the buffer is unloaded with its last session
RespondHashBuffer ==
    LET tb == bld.mhtables
    IN  /\ bld.pc = "returned"
        /\ tb.n_kernel > 0
        /\ bld' = IF tb.n_kernel = 1
                  THEN [bld EXCEPT !.mhtables.n_kernel = 0,
                                   !.mhtables.m_hash = NULL,
                                   !.mhtables.ev_hash = NULL]
                  ELSE [bld EXCEPT !.mhtables.n_kernel = @ - 1]
        /\ UNCHANGED <<scan, aside_bld>>

InitBuild ==
    /\ outer_bulkload = FALSE
    /\ exec_multi = FALSE
    /\ host_clauses = FALSE
    /\ inner_nchunks = 1
    /\ InitState
    /\ hist = InitHist
    /\ devq = NoDevice
    /\ pscan = NoPscan
    /\ kern = NoKern
    /\ preagg = NoPreagg
    /\ bld = [NoBuild EXCEPT !.nslots = EstInnerRows,
                             !.hashtable_size = PlanHashtableSize,
                             !.mhs = [d \in 1..NRels |-> NoMhs]]

NextBuild ==
    \/ \E ok \in BOOLEAN : ExecMulti(ok)
    \/ RowFetch
    \/ \E ok \in BOOLEAN : RowGrow(ok)
    \/ RowStore
    \/ UpperBegin
    \/ \E ok \in BOOLEAN : ChunkGrow(ok)
    \/ ChunkCopy
    \/ \E ok \in BOOLEAN : ProcessHashBuffer(ok)
    \/ RespondHashBuffer

SpecBuild == InitBuild /\ [][NextBuild]_vars

\* the entries reached from a slot: hash code, row id, length and payload
RECURSIVE Chain(_, _, _, _)
Chain(mem, base, off, fuel) ==
    IF off = 0 \/ fuel = 0 THEN <<>>
    ELSE IF base + off + 1 > Len(mem) \/ mem[base + off + 1].k # "hentry"
    THEN <<Junk>>
    ELSE LET e == mem[base + off + 1]
         IN  <<[hash |-> e.hash, rowid |-> e.rowid, t_len |-> e.t_len,
                htup |-> [i \in 1..e.t_len |->
                            mem[base + off + EntryHeadLen + i]]]>>
             \o Chain(mem, base, e.next, fuel - 1)

\* the table built from rows in a buffer that is large enough
RECURSIVE BuildLarge(_, _, _, _, _)
BuildLarge(mem, rows, k, consumed, nslots) ==
    IF k > Len(rows) THEN mem
    ELSE BuildLarge(InsertEntry(mem, 0, consumed, nslots, rows[k], k - 1),
                    rows, k + 1, consumed + EntrySize(rows[k]), nslots)

LargeTable(rows, nslots) ==
    BuildLarge(PutCells([i \in 1..(HashtableHeadLen + nslots
                                   + Len(rows) * (EntryHeadLen + MaxTupleLen))
                           |-> Junk], 0, NewHashtable(nslots)),
               rows, 1, HashtableHeadLen + nslots, nslots)

\* the head of the chain of slot i (-1: the cell is not a slot)
SlotHead(mem, base, i) ==
    IF mem[base + HashtableHeadLen + i + 1].k = "slot"
    THEN mem[base + HashtableHeadLen + i + 1].head ELSE -1

\* the table of depth d in the buffer holds, slot by slot, what the table
\* built from the same rows in a large buffer holds
SameAsLarge(d) ==
    LET tb == bld.mhtables
        ref == LargeTable(bld.mhs[d].fed, bld.nslots)
    IN  /\ ~tb.freed
        /\ tb.htable_offset[d] >= KernHeadLen
        /\ \A i \in 0..(bld.nslots - 1) :
              SlotHead(tb.mem, tb.htable_offset[d], i) >= 0
        /\ \A i \in 0..(bld.nslots - 1) :
              Chain(tb.mem, tb.htable_offset[d],
                    SlotHead(tb.mem, tb.htable_offset[d], i), MaxBuildRows + 1)
              = Chain(ref, 0, SlotHead(ref, 0, i), MaxBuildRows + 1)

\* the depths whose table is in the buffer, finished or under construction
TablesIn ==
    IF bld.pc \in {"rows", "upper", "copy"}
    THEN (IF bld.pc = "rows" THEN bld.level ELSE bld.level + 1)..NRels
    ELSE IF bld.pc = "returned" THEN 1..NRels ELSE {}

SpreadOver(d) == bld.mhs[d].chunkno > 1 \/ ~bld.mhs[d].outer_done

\* C21: a buffer that multihash_exec_multi returns has is_divided = true
\* if the inner relation of some depth is spread over more than one chunk,
\* whether the chunk in the buffer is the first, a middle or the last one,
\* and is_divided = false if it holds every inner relation completely
C21_DividedIffSpread ==
    bld.pc = "returned" =>
        (bld.mhtables.is_divided <=> \E d \in 1..NRels : SpreadOver(d))

\* the buffer with the last chunk of the relation of depth 1 and the only
\* chunk of the relation of depth 2 is returned
C21_Witness ==
    /\ bld.pc = "returned"
    /\ bld.mhs[1].chunkno > 1 /\ bld.mhs[1].outer_done
    /\ bld.mhs[2].chunkno = 1 /\ bld.mhs[2].outer_done
    /\ bld.mhtables.is_divided

\* b follows a in the order of nested loops over the chunks: the chunk of
\* some depth advances by one, the chunks of the depths above it stay and
\* those of the depths below it start again
NextCombo(a, b) ==
    \E d \in 1..NRels :
        /\ b[d] = a[d] + 1
        /\ \A k \in 1..NRels : (k < d => b[k] = a[k]) /\ (k > d => b[k] = 1)

BuiltDepth ==
    IF bld.pc = "rows" THEN bld.level
    ELSE IF bld.pc \in {"upper", "copy"} THEN bld.level + 1
    ELSE 1

CellsInUse ==
    bld.mhtables.usage + (IF bld.pc = "rows" THEN bld.consumed ELSE 0)

RECURSIVE ChainOffsets(_, _, _, _)
ChainOffsets(mem, base, off, fuel) ==
    IF off = 0 THEN <<>>
    ELSE IF fuel = 0 \/ off < 0 \/ base + off + 1 > Len(mem) THEN <<-1>>
    ELSE IF mem[base + off + 1].k # "hentry" THEN <<-1>>
    ELSE <<off>> \o ChainOffsets(mem, base, mem[base + off + 1].next, fuel - 1)

\* where the k-th row put into a table is: behind the header, the slots
\* and the entries of the rows before it
RECURSIVE EntryOffset(_, _, _)
EntryOffset(rows, k, nslots) ==
    IF k = 1 THEN HashtableHeadLen + nslots
    ELSE EntryOffset(rows, k - 1, nslots) + EntrySize(rows[k - 1])

\* the offsets of the rows among the first k whose hash selects slot i,
\* the row inserted last first
RECURSIVE SlotOffsets(_, _, _, _)
SlotOffsets(rows, k, i, nslots) ==
    IF k = 0 THEN <<>>
    ELSE (IF rows[k].hash % nslots = i
          THEN <<EntryOffset(rows, k, nslots)>> ELSE <<>>)
         \o SlotOffsets(rows, k - 1, i, nslots)

\* C24: in every table of the buffer, while it is built and after, the
\* chain of slot i is, from its head on, the entries of the rows whose
\* hash % nslots is i, the one inserted last first, and it ends with link
\* 0: every inserted entry is reached from the slot of its hash and from
\* no other, no chain has a cycle, and no entry is at offset 0
C24_ChainsBySlot ==
    \A d \in TablesIn :
        \A i \in 0..(bld.nslots - 1) :
            LET base == bld.mhtables.htable_offset[d]
                rows == bld.mhs[d].fed
                chain == ChainOffsets(bld.mhtables.mem, base,
                                      SlotHead(bld.mhtables.mem, base, i),
                                      MaxBuildRows + 1)
            IN  /\ chain = SlotOffsets(rows, Len(rows), i, bld.nslots)
                /\ \A j \in 1..Len(chain) : chain[j] > 0

\* a table with three entries in the chain of slot 1: their hash is
\* larger than the number of slots
C24_Witness ==
    /\ bld.pc = "returned"
    /\ \E d \in 1..NRels :
          /\ Len(bld.mhs[d].fed) = 3
          /\ \A k \in 1..3 : bld.mhs[d].fed[k].hash = HashStride
          /\ Len(ChainOffsets(bld.mhtables.mem, bld.mhtables.htable_offset[d],
                    SlotHead(bld.mhtables.mem, bld.mhtables.htable_offset[d],
                             HashStride % bld.nslots),
                    MaxBuildRows + 1)) = 3

\* the number of entries the slots of the table at base reach
RECURSIVE EntriesReached(_, _, _, _)
EntriesReached(mem, base, i, nslots) ==
    IF i = nslots THEN 0
    ELSE Len(ChainOffsets(mem, base, SlotHead(mem, base, i), MaxBuildRows + 1))
         + EntriesReached(mem, base, i + 1, nslots)

\* C25: when the top node has copied its saved table (curr_chunk) into the
\* buffer, the cells of the copy are those of the saved table, and read
\* at its new offset the copy has, slot by slot, the chains of the saved
\* table: the same offsets, hash values, row ids and payloads, all the
\* rows of the table and nothing that is not an entry
C25_CopyKeepsChains ==
    (bld.pc = "returned" /\ ~bld.scan_forward) =>
        LET base == bld.mhtables.htable_offset[1]
            chunk == bld.mhs[1].curr_chunk
            mem == bld.mhtables.mem
        IN  /\ SubSeq(mem, base + 1, base + Len(chunk)) = chunk
            /\ \A i \in 0..(bld.nslots - 1) :
                  /\ ChainOffsets(mem, base, SlotHead(mem, base, i),
                                  MaxBuildRows + 1)
                     = ChainOffsets(chunk, 0, SlotHead(chunk, 0, i),
                                    MaxBuildRows + 1)
                  /\ Chain(mem, base, SlotHead(mem, base, i), MaxBuildRows + 1)
                     = Chain(chunk, 0, SlotHead(chunk, 0, i), MaxBuildRows + 1)
                  /\ \A j \in 1..Len(ChainOffsets(chunk, 0,
                                      SlotHead(chunk, 0, i), MaxBuildRows + 1)) :
                        ChainOffsets(chunk, 0, SlotHead(chunk, 0, i),
                                     MaxBuildRows + 1)[j] > 0
            /\ EntriesReached(chunk, 0, 0, bld.nslots) = Len(bld.mhs[1].fed)
            /\ EntriesReached(mem, base, 0, bld.nslots) = Len(bld.mhs[1].fed)

\* a table with a chain of two entries was copied to another offset than
\* the one it was built at
C25_Witness ==
    /\ bld.pc = "returned"
    /\ ~bld.scan_forward
    /\ bld.mhtables.htable_offset[1] # bld.mhs[1].built_at
    /\ \E i \in 0..(bld.nslots - 1) :
          Len(ChainOffsets(bld.mhtables.mem, bld.mhtables.htable_offset[1],
                           SlotHead(bld.mhtables.mem,
                                    bld.mhtables.htable_offset[1], i),
                           MaxBuildRows + 1)) >= 2

\* what the tables of a buffer are made of
TableContents(tb) ==
    [mem |-> tb.mem, length |-> tb.length, usage |-> tb.usage,
     htable_offset |-> tb.htable_offset, is_divided |-> tb.is_divided]

\* C26: a buffer that multihash_exec_multi of the top node has returned
\* is not built in any more, and a step that keeps it as the buffer of
\* the nodes (a step of the device server) leaves its table contents as
\* they are; the nodes go on in a buffer that was never handed over
C26_HandedBufferNotWritten ==
    /\ [](bld.pc \in {"rows", "upper", "copy"}
            => bld.mhtables.id \notin bld.handed)
    /\ [][bld.mhtables.id \in bld.handed =>
            IF bld'.mhtables.id = bld.mhtables.id
            THEN TableContents(bld'.mhtables) = TableContents(bld.mhtables)
            ELSE bld'.mhtables.id \notin bld.handed]_vars

\* a second buffer was returned, and two sessions have loaded it to the
\* device
C26_Witness ==
    /\ bld.pc = "returned"
    /\ Cardinality(bld.handed) = 2
    /\ bld.mhtables.n_kernel = 2
    /\ bld.mhtables.m_hash # NULL

\* C16: the only error of the build is the failed allocation of a fresh
\* buffer ("out of shared memory"): a failed expansion of an existing
\* buffer never ends the build with an error, at whichever place of
\* multihash_preload_khashtable the expansion was asked for
C16_GrowthFailureNotFatal ==
    bld.pc = "error" => bld.error = "out of shared memory"

\* the build with a first buffer of small capacity: the length of the
\* buffer is taken from what pgstrom_shmem_alloc_alap reports as
\* allocated, while nslots and threshold_ratio are those of the plan
SmallCapacity == 8
GrantedSizes == {SmallCapacity, PlanHashtableSize}

InitGranted(sizes) ==
    /\ outer_bulkload = FALSE
    /\ exec_multi = FALSE
    /\ host_clauses = FALSE
    /\ inner_nchunks = 1
    /\ InitState
    /\ hist = InitHist
    /\ devq = NoDevice
    /\ pscan = NoPscan
    /\ kern = NoKern
    /\ preagg = NoPreagg
    /\ \E granted \in sizes :
           bld = [NoBuild EXCEPT !.nslots = EstInnerRows,
                                 !.hashtable_size = granted,
                                 !.mhs = [d \in 1..NRels |-> NoMhs]]

InitGrow == InitGranted(GrantedSizes)

SpecGrow == InitGrow /\ [][NextBuild]_vars

\* the steps of the build itself: the executor calls MultiExecProcNode
\* until it returns NULL, and a call runs until it returns
BuildStep ==
    \/ \E ok \in BOOLEAN : ExecMulti(ok)
    \/ RowFetch
    \/ \E ok \in BOOLEAN : RowGrow(ok)
    \/ RowStore
    \/ UpperBegin
    \/ \E ok \in BOOLEAN : ChunkGrow(ok)
    \/ ChunkCopy

SpecBuildFair == SpecBuild /\ WF_vars(BuildStep)

\* the build with a first buffer in which the header of the deepest node
\* fits, but no row does
TightCapacity == 10
InitTight == InitGranted({TightCapacity, PlanHashtableSize})
SpecTightFair == InitTight /\ [][NextBuild]_vars /\ WF_vars(BuildStep)

\* a forward-scanning multihash_preload_khashtable reaches its label out
PreloadReturns == bld.pc = "rows" /\ bld'.pc \in {"upper", "returned"}

\* C35: every forward-scanning multihash_preload_khashtable has stored
\* at least one row when it returns, or has reached the end of its
\* relation, and the build comes to its end (no more buffers, or an
\* error that ends the query)
C35_BuildTerminates ==
    /\ [][PreloadReturns =>
              \/ bld.ntuples >= 1
              \/ bld'.mhs[bld.level].outer_done]_vars
    /\ <>(bld.pc \in {"finished", "error"})

\* a step in which expand_multihash_tables succeeded
Expanded == bld.pc \in {"rows", "copy"} /\ bld'.nalloc = bld.nalloc + 1

\* C34: after a successful expand_multihash_tables the buffer the builder
\* works on, which is also the one it returns through p_mhtables, is the
\* new allocation of twice the length, and the builder never works on a
\* buffer that was released
C34_WorksOnNewBuffer ==
    /\ [](bld.mhtables.freed = FALSE)
    /\ [][Expanded => /\ bld'.mhtables.id = bld.mhtables.id + 1
                      /\ bld'.mhtables.length = 2 * bld.mhtables.length
                      /\ bld'.mhtables.freed = FALSE]_vars


(* ------------------------------------------------------------------ *)
(* build_pseudo_scan_vartrans: the Var nodes of the GpuHashJoin node    *)
(* are numbered, then looked up in the target lists of the outer plans  *)
(* of the node (depth 0) and of the MultiHash nodes (depth 1..N).       *)
(* ------------------------------------------------------------------ *)
PlanVars == 1..MaxVars

\* the Var nodes met by a walk, in the order they are met
VarRefs == UNION {[1..n -> PlanVars] : n \in 0..MaxRefs}

\* build_pscan_varlist_walker on one Var node: a node that is listed gets
\* the bit of refmode, a new one is appended with the next number
build_pscan_varlist_walker(node, context, refmode) ==
    IF \E i \in 1..Len(context.varlist) : context.varlist[i] = node
    THEN [context EXCEPT
            !.varrefs = [i \in 1..Len(@) |->
                           IF context.varlist[i] = node
                           THEN @[i] \cup {refmode} ELSE @[i]]]
    ELSE [context EXCEPT
            !.varlist = Append(@, node),
            !.varrefs = Append(@, {refmode}),
            !.resnums = Append(@, Len(context.resnums) + 1)]

RECURSIVE WalkList(_, _, _, _)
WalkList(nodes, k, context, refmode) ==
    IF k > Len(nodes) THEN context
    ELSE WalkList(nodes, k + 1,
                  build_pscan_varlist_walker(nodes[k], context, refmode),
                  refmode)

\* a numbering that walks the device-side expressions first
PscanVarlistDeviceFirst(host, device) ==
    WalkList(host, 1,
             WalkList(device, 1,
                      [varlist |-> <<>>, varrefs |-> <<>>, resnums |-> <<>>],
                      2),
             1)

\* the first part of build_pseudo_scan_vartrans: target list, qual and
\* host clauses are walked with refmode 0x0001, then hash and qual clauses
\* with refmode 0x0002
PscanVarlist(host, device) ==
    WalkList(device, 1,
             WalkList(host, 1,
                      [varlist |-> <<>>, varrefs |-> <<>>, resnums |-> <<>>],
                      1),
             2)

DeleteCell(q, i) == SubSeq(q, 1, i - 1) \o SubSeq(q, i + 1, Len(q))

SetMax(S) == CHOOSE m \in S : \A e \in S : e <= m

\* the elements of a set of Var nodes in the order of PlanVars, which is the
\* order a walk meets the Vars of an expression
RECURSIVE SideSeq(_)
SideSeq(S) ==
    IF S = {} THEN <<>>
    ELSE Append(SideSeq(S \ {SetMax(S)}), SetMax(S))

\* tle->resno of a Var in the target list of the outer plan of depth: the
\* target list holds the Vars that plan yields, in the order of PlanVars
TleResno(tlist, depth, node) ==
    Cardinality({v \in PlanVars : v <= node /\ depth \in tlist[v]})

\* a loop that leaves a Var it has found in the list
RECURSIVE ScanVarlistKeep(_, _, _, _, _)
ScanVarlistKeep(context, i, depth, tlist, temp_vartrans) ==
    IF i > Len(context.varlist)
    THEN [context |-> context, vartrans |-> temp_vartrans]
    ELSE IF depth \in tlist[context.varlist[i]]
    THEN ScanVarlistKeep(
            context, i + 1, depth, tlist,
            Append(temp_vartrans,
                   [srcdepth |-> depth,
                    srcresno |-> TleResno(tlist, depth, context.varlist[i]),
                    resno |-> context.resnums[i],
                    ref_host |-> 1 \in context.varrefs[i],
                    ref_device |-> 2 \in context.varrefs[i],
                    expr |-> context.varlist[i]]))
    ELSE ScanVarlistKeep(context, i + 1, depth, tlist, temp_vartrans)

\* the loop over the list for one depth: a Var found in the target list of
\* the outer plan gets its vartrans_info and leaves the list; the loop
\* goes on behind it, or from the head if it was the head
RECURSIVE ScanVarlist(_, _, _, _, _)
ScanVarlist(context, i, depth, tlist, temp_vartrans) ==
    IF i > Len(context.varlist)
    THEN [context |-> context, vartrans |-> temp_vartrans]
    ELSE IF depth \in tlist[context.varlist[i]]
    THEN ScanVarlist(
            [varlist |-> DeleteCell(context.varlist, i),
             varrefs |-> DeleteCell(context.varrefs, i),
             resnums |-> DeleteCell(context.resnums, i)],
            i, depth, tlist,
            Append(temp_vartrans,
                   [srcdepth |-> depth,
                    srcresno |-> TleResno(tlist, depth, context.varlist[i]),
                    resno |-> context.resnums[i],
                    ref_host |-> 1 \in context.varrefs[i],
                    ref_device |-> 2 \in context.varrefs[i],
                    expr |-> context.varlist[i]]))
    ELSE ScanVarlist(context, i + 1, depth, tlist, temp_vartrans)

\* the Var nodes are collected and numbered
PscanWalk ==
    /\ pscan.pc = "walk"
    /\ LET c == PscanVarlist(pscan.host, pscan.device)
       IN  pscan' = [pscan EXCEPT !.pc = "trans", !.depth = 0,
                                  !.varlist = c.varlist,
                                  !.varrefs = c.varrefs,
                                  !.resnums = c.resnums]
    /\ UNCHANGED <<scan, aside_pscan>>

\* the target list of the outer plan of one more depth is searched; a Var
\* that is left after the last depth is an error (the Assert on the
\* length of the list, and "variable not found in the pseudo scan target
\* lists" of fix_gpuhashjoin_expr_mutator)
PscanDepth ==
    /\ pscan.pc = "trans"
    /\ LET r == ScanVarlist([varlist |-> pscan.varlist,
                             varrefs |-> pscan.varrefs,
                             resnums |-> pscan.resnums],
                            1, pscan.depth, pscan.tlist, <<>>)
       IN  pscan' = [pscan EXCEPT
                       !.varlist = r.context.varlist,
                       !.varrefs = r.context.varrefs,
                       !.resnums = r.context.resnums,
                       !.vartrans = @ \o r.vartrans,
                       !.depth = @ + 1,
                       !.pc = IF pscan.depth < NRels THEN "trans"
                              ELSE IF r.context.varlist = <<>> THEN "done"
                              ELSE "error"]
    /\ UNCHANGED <<scan, aside_pscan>>

\* the vartrans_info of a Var node, and of a pseudo-column
VtransOfExpr(pscan_vartrans, node) ==
    pscan_vartrans[CHOOSE i \in 1..Len(pscan_vartrans) :
                      pscan_vartrans[i].expr = node]

VtransOfResno(pscan_vartrans, resno) ==
    pscan_vartrans[CHOOSE i \in 1..Len(pscan_vartrans) :
                      pscan_vartrans[i].resno = resno]

\* the target list of the outer plan of a depth: the Vars it yields
TargetList(tlist, depth) == SideSeq({v \in PlanVars : depth \in tlist[v]})

\* a generator that writes the column numbers as they are in the table
ProjectionOneBased(pscan_vartrans) ==
    [i \in 1..Len(pscan_vartrans) |->
        [dest_colidx |-> pscan_vartrans[i].resno,
         src_depth |-> pscan_vartrans[i].srcdepth,
         src_colidx |-> pscan_vartrans[i].srcresno]]

\* gpuhashjoin_codegen_projection: the case labels of the switch of
\* gpuhashjoin_projection_mapping, one per vartrans_info
gpuhashjoin_codegen_projection(pscan_vartrans) ==
    [i \in 1..Len(pscan_vartrans) |->
        [dest_colidx |-> pscan_vartrans[i].resno - 1,
         src_depth |-> pscan_vartrans[i].srcdepth,
         src_colidx |-> pscan_vartrans[i].srcresno - 1]]

\* the generated function: the case of dest_colidx sets both results, the
\* default case sets none
gpuhashjoin_projection_mapping(cases, dest_colidx) ==
    IF \E i \in 1..Len(cases) : cases[i].dest_colidx = dest_colidx
    THEN [src_depth |->
             cases[CHOOSE i \in 1..Len(cases) :
                      cases[i].dest_colidx = dest_colidx].src_depth,
          src_colidx |->
             cases[CHOOSE i \in 1..Len(cases) :
                      cases[i].dest_colidx = dest_colidx].src_colidx]
    ELSE [src_depth |-> -1, src_colidx |-> -1]

\* multihash_get_special_var: an OUTER_VAR of a MultiHash node is the
\* entry of that number in the target list of its outer plan
multihash_get_special_var(tlist, depth, varattno) ==
    TargetList(tlist, depth)[varattno]

\* gpuhashjoin_get_special_var on an INDEX_VAR: the first vartrans_info
\* of that pseudo-column names the plan, which is the outer plan or the
\* MultiHash node of srcdepth, and the entry srcresno of its target list;
\* the target list of a MultiHash node has, for each entry of the target
\* list of its outer plan, an OUTER_VAR of the same number
gpuhashjoin_get_special_var(pscan_vartrans, tlist, varattno) ==
    IF \A i \in 1..Len(pscan_vartrans) :
          pscan_vartrans[i].resno # varattno
    THEN [varattno |-> varattno, child_ps |-> -1, expr |-> 0]
    ELSE IF VtransOfResno(pscan_vartrans, varattno).srcresno >
            Len(TargetList(tlist,
                           VtransOfResno(pscan_vartrans, varattno).srcdepth))
    THEN [varattno |-> varattno, child_ps |-> -1, expr |-> 0]
    ELSE [varattno |-> varattno,
          child_ps |-> VtransOfResno(pscan_vartrans, varattno).srcdepth,
          expr |-> multihash_get_special_var(
                      tlist,
                      VtransOfResno(pscan_vartrans, varattno).srcdepth,
                      VtransOfResno(pscan_vartrans, varattno).srcresno)]

\* the kernel source of a plan whose table is complete is generated
CodegenProjection ==
    /\ pscan.pc = "done"
    /\ pscan' = [pscan EXCEPT
                   !.pc = "coded",
                   !.mapping = gpuhashjoin_codegen_projection(pscan.vartrans)]
    /\ UNCHANGED <<scan, aside_pscan>>

\* EXPLAIN resolves a reference to a pseudo-column
GetSpecialVar ==
    /\ pscan.pc = "coded"
    /\ \E varattno \in 1..Len(pscan.vartrans) :
          pscan' = [pscan EXCEPT
                      !.pc = "explained",
                      !.special = gpuhashjoin_get_special_var(
                                     pscan.vartrans, pscan.tlist, varattno)]
    /\ UNCHANGED <<scan, aside_pscan>>

\* a plan: the Var nodes of the host-side and of the device-side
\* expressions, and the depths whose outer plans yield each Var
InitPlan ==
    /\ outer_bulkload = FALSE
    /\ exec_multi = FALSE
    /\ host_clauses = FALSE
    /\ inner_nchunks = 1
    /\ InitState
    /\ hist = InitHist
    /\ devq = NoDevice
    /\ bld = NoBuild
    /\ kern = NoKern
    /\ preagg = NoPreagg
    /\ \E h \in VarRefs, d \in VarRefs,
          tl \in [PlanVars -> SUBSET (0..NRels)] :
          pscan = [NoPscan EXCEPT !.pc = "walk", !.host = h, !.device = d,
                                  !.tlist = tl]

NextPlan ==
    \/ PscanWalk
    \/ PscanDepth
    \/ CodegenProjection
    \/ GetSpecialVar

SpecPlan == InitPlan /\ [][NextPlan]_vars

HostResnos == {pscan.vartrans[i].resno :
                 i \in {j \in 1..Len(pscan.vartrans) :
                          pscan.vartrans[j].ref_host}}

DeviceOnlyResnos == {pscan.vartrans[i].resno :
                       i \in {j \in 1..Len(pscan.vartrans) :
                                ~pscan.vartrans[j].ref_host}}

\* C17: in the finished table every Var of the host-side expressions is
\* marked ref_host, every Var of the device-side expressions ref_device,
\* each Var has one entry, the numbers of the host-referenced entries
\* (referenced by the device too or not) are 1..k, and every other entry
\* has a larger number
C17_HostResnosFirst ==
    pscan.pc = "done" =>
        /\ \A i, j \in 1..Len(pscan.vartrans) :
              pscan.vartrans[i].expr = pscan.vartrans[j].expr => i = j
        /\ \A i \in 1..Len(pscan.vartrans) :
              /\ pscan.vartrans[i].ref_host <=>
                    pscan.vartrans[i].expr \in Range(pscan.host)
              /\ pscan.vartrans[i].ref_device <=>
                    pscan.vartrans[i].expr \in Range(pscan.device)
        /\ {pscan.vartrans[i].expr : i \in 1..Len(pscan.vartrans)}
              = Range(pscan.host) \cup Range(pscan.device)
        /\ HostResnos = 1..Cardinality(Range(pscan.host))
        /\ \A h \in HostResnos, d \in DeviceOnlyResnos : h < d

\* a finished table with two host-referenced Vars, one of them referenced
\* by the device too, and one Var referenced by the device only, the
\* entries being out of the order of their numbers
C17_Witness ==
    /\ pscan.pc = "done"
    /\ Len(pscan.device) = 2
    /\ Cardinality(HostResnos) = 2
    /\ Cardinality(DeviceOnlyResnos) = 1
    /\ \E i \in 1..Len(pscan.vartrans) :
          pscan.vartrans[i].ref_host /\ pscan.vartrans[i].ref_device
    /\ \E i, j \in 1..Len(pscan.vartrans) :
          i < j /\ pscan.vartrans[i].resno > pscan.vartrans[j].resno

\* the Var nodes the expressions of the node refer to
PscanReferenced == Range(pscan.host) \cup Range(pscan.device)

\* the smallest element of a set of depths
MinDepth(S) == CHOOSE d \in S : \A e \in S : d <= e

Projected(dest_colidx) ==
    TargetList(pscan.tlist,
               gpuhashjoin_projection_mapping(pscan.mapping,
                                              dest_colidx).src_depth)
       [gpuhashjoin_projection_mapping(pscan.mapping,
                                       dest_colidx).src_colidx + 1]

\* C30: for every vartrans_info the generated mapping returns, for the
\* pseudo-column resno - 1, the depth srcdepth and the column
\* srcresno - 1, and the column found there is the Var the entry was
\* made for; gpuhashjoin_get_special_var resolves the pseudo-column to
\* the plan of the same depth and to the same Var
C30_MappingIsProvenance ==
    /\ pscan.pc \in {"coded", "explained"} =>
          \A i \in 1..Len(pscan.vartrans) :
              /\ gpuhashjoin_projection_mapping(
                     pscan.mapping, pscan.vartrans[i].resno - 1)
                  = [src_depth |-> pscan.vartrans[i].srcdepth,
                     src_colidx |-> pscan.vartrans[i].srcresno - 1]
              /\ pscan.vartrans[i].srcdepth \in pscan.tlist[pscan.vartrans[i].expr]
              /\ Cardinality({u \in PlanVars :
                                 pscan.vartrans[i].srcdepth \in pscan.tlist[u]})
                  >= pscan.vartrans[i].srcresno
              /\ Projected(pscan.vartrans[i].resno - 1)
                  = pscan.vartrans[i].expr
    /\ pscan.pc = "explained" =>
          \E i \in 1..Len(pscan.vartrans) :
              /\ pscan.vartrans[i].resno = pscan.special.varattno
              /\ pscan.special.child_ps
                  = gpuhashjoin_projection_mapping(
                       pscan.mapping, pscan.special.varattno - 1).src_depth
              /\ pscan.special.child_ps = pscan.vartrans[i].srcdepth
              /\ pscan.special.expr = pscan.vartrans[i].expr

\* the first pseudo-column is resolved to the second column of the
\* relation of the deepest MultiHash node
C30_Witness ==
    /\ pscan.pc = "explained"
    /\ pscan.special.varattno = 1
    /\ pscan.special.child_ps = NRels
    /\ gpuhashjoin_projection_mapping(pscan.mapping, 0)
       = [src_depth |-> NRels, src_colidx |-> 1]
    /\ Len(pscan.vartrans) > 1


(* ------------------------------------------------------------------ *)
(* gpuhashjoin_set_plan_ref: the expressions of the node are rewritten  *)
(* to refer to the pseudo relation, and the hash clauses of each depth  *)
(* are split into the keys of the MultiHash node of that depth.  An     *)
(* expression is modelled by its Var nodes: before the rewriting a set  *)
(* of Vars, afterwards a function from these Vars to (varno, varattno). *)
(* ------------------------------------------------------------------ *)
RECURSIVE ArgsVars(_, _)
ArgsVars(args, k) ==
    IF k > Len(args) THEN <<>>
    ELSE SideSeq(args[k]) \o ArgsVars(args, k + 1)

RECURSIVE ClausesVars(_, _)
ClausesVars(clauses, k) ==
    IF k > Len(clauses) THEN <<>>
    ELSE ArgsVars(clauses[k].args, 1) \o ClausesVars(clauses, k + 1)

\* the Var nodes of ghjoin->hash_clauses, a list of lists
RECURSIVE HashClauseVars(_, _)
HashClauseVars(hash_clauses, depth) ==
    IF depth > Len(hash_clauses) THEN <<>>
    ELSE ClausesVars(hash_clauses[depth], 1)
         \o HashClauseVars(hash_clauses, depth + 1)

\* the second part of build_pseudo_scan_vartrans, for all depths
RECURSIVE PscanDepths(_, _, _, _)
PscanDepths(context, depth, tlist, vartrans) ==
    IF depth > NRels THEN [context |-> context, vartrans |-> vartrans]
    ELSE LET r == ScanVarlist(context, 1, depth, tlist, <<>>)
         IN  PscanDepths(r.context, depth + 1, tlist, vartrans \o r.vartrans)

build_pseudo_scan_vartrans(host, device, tlist) ==
    PscanDepths(PscanVarlist(host, device), 0, tlist, <<>>)

\* fix_gpuhashjoin_expr: every Var becomes a reference to its column of
\* the pseudo relation
fix_gpuhashjoin_expr(node, pscan_vartrans) ==
    [v \in node |->
        [varno |-> "INDEX_VAR",
         varattno |-> VtransOfExpr(pscan_vartrans, v).resno]]

FixClause(clause, pscan_vartrans) ==
    [tag |-> clause.tag,
     args |-> [a \in 1..Len(clause.args) |->
                 fix_gpuhashjoin_expr(clause.args[a], pscan_vartrans)]]

FixClauses(hash_clauses, pscan_vartrans) ==
    [d \in 1..Len(hash_clauses) |->
        [k \in 1..Len(hash_clauses[d]) |->
            FixClause(hash_clauses[d][k], pscan_vartrans)]]

\* a test that is content with one Var of the depth
clause_some_in_depth(node, pscan_vartrans, depth) ==
    \E v \in DOMAIN node :
        VtransOfResno(pscan_vartrans, node[v].varattno).srcdepth = depth

\* clause_in_depth: no Var of the expression comes from another depth
clause_in_depth(node, pscan_vartrans, depth) ==
    \A v \in DOMAIN node :
        VtransOfResno(pscan_vartrans, node[v].varattno).srcdepth = depth

\* a rewriting that keeps the column number of the pseudo relation
hashkey_setref_pseudo(node, pscan_vartrans) ==
    [v \in DOMAIN node |->
        [varno |-> "OUTER_VAR", varattno |-> node[v].varattno]]

\* hashkey_setref_scanrel: every Var becomes a reference to the column of
\* the relation the MultiHash node scans
hashkey_setref_scanrel(node, pscan_vartrans) ==
    [v \in DOMAIN node |->
        [varno |-> "OUTER_VAR",
         varattno |->
            VtransOfResno(pscan_vartrans, node[v].varattno).srcresno]]

\* the keys of a MultiHash node before gpuhashjoin_set_plan_ref
NoKeys == [hash_inner_keys |-> <<>>, hash_outer_keys |-> <<>>, errmsg |-> ""]

\* the loop over the hash clauses of one depth
RECURSIVE SetRefKeys(_, _, _, _, _)
SetRefKeys(clauses, k, pscan_vartrans, depth, keys) ==
    IF k > Len(clauses) THEN keys
    ELSE IF clauses[k].tag # "OpExpr" \/ Len(clauses[k].args) # 2
    THEN [keys EXCEPT !.errmsg = "Binary OpExpr is expected in hash_clause"]
    ELSE IF clause_in_depth(clauses[k].args[1], pscan_vartrans, depth)
    THEN SetRefKeys(clauses, k + 1, pscan_vartrans, depth,
            [keys EXCEPT
               !.hash_inner_keys =
                  Append(@, hashkey_setref_scanrel(clauses[k].args[1],
                                                   pscan_vartrans)),
               !.hash_outer_keys = Append(@, clauses[k].args[2])])
    ELSE IF clause_in_depth(clauses[k].args[2], pscan_vartrans, depth)
    THEN SetRefKeys(clauses, k + 1, pscan_vartrans, depth,
            [keys EXCEPT
               !.hash_inner_keys =
                  Append(@, hashkey_setref_scanrel(clauses[k].args[2],
                                                   pscan_vartrans)),
               !.hash_outer_keys = Append(@, clauses[k].args[1])])
    ELSE [keys EXCEPT !.errmsg = "Unexpected OpExpr arguments"]

\* the loop over the depths: the keys are stored in the MultiHash node
\* once all the clauses of its depth are done
RECURSIVE SetRefDepths(_, _, _, _)
SetRefDepths(hash_clauses, depth, pscan_vartrans, mhash) ==
    IF depth > Len(hash_clauses) THEN [mhash |-> mhash, errmsg |-> ""]
    ELSE LET keys == SetRefKeys(hash_clauses[depth], 1, pscan_vartrans,
                                depth, NoKeys)
         IN  IF keys.errmsg # ""
             THEN [mhash |-> mhash, errmsg |-> keys.errmsg]
             ELSE SetRefDepths(hash_clauses, depth + 1, pscan_vartrans,
                               [mhash EXCEPT ![depth] = keys])

gpuhashjoin_set_plan_ref ==
    /\ pscan.pc = "setref"
    /\ LET device == HashClauseVars(pscan.hash_clauses, 1)
           r == build_pseudo_scan_vartrans(pscan.host, device, pscan.tlist)
       IN  IF r.context.varlist # <<>>
           THEN pscan' = [pscan EXCEPT
                   !.pc = "error", !.device = device,
                   !.vartrans = r.vartrans,
                   !.errmsg =
                      "variable not found in the pseudo scan target lists"]
           ELSE LET fixed == FixClauses(pscan.hash_clauses, r.vartrans)
                    k == SetRefDepths(fixed, 1, r.vartrans, pscan.mhash)
                IN  pscan' = [pscan EXCEPT
                       !.pc = IF k.errmsg = "" THEN "planned" ELSE "error",
                       !.device = device,
                       !.vartrans = r.vartrans,
                       !.hash_clauses = fixed,
                       !.mhash = k.mhash,
                       !.errmsg = k.errmsg]
    /\ UNCHANGED <<scan, aside_pscan>>

\* the expressions a hash clause is made of, and the hash clauses: binary
\* operator expressions, and nodes that are not
ClauseSides == {S \in SUBSET PlanVars : Cardinality(S) <= MaxRefs}

HashClauseNodes ==
    {[tag |-> "OpExpr", args |-> <<a, b>>] : a, b \in ClauseSides}
    \cup {[tag |-> "OpExpr", args |-> <<{1}>>],
          [tag |-> "BoolExpr", args |-> <<{1}, {MaxVars}>>]}

\* a plan with MultiHash nodes that have no keys yet: the Var nodes of the
\* target list, the hash clauses of each depth, and the depth whose outer
\* plan yields each Var
InitSetRef ==
    /\ outer_bulkload = FALSE
    /\ exec_multi = FALSE
    /\ host_clauses = FALSE
    /\ inner_nchunks = 1
    /\ InitState
    /\ hist = InitHist
    /\ devq = NoDevice
    /\ bld = NoBuild
    /\ kern = NoKern
    /\ preagg = NoPreagg
    /\ \E h \in {<<MaxVars>>},
          tl \in [PlanVars -> {{d} : d \in 0..NRels}],
          c1 \in HashClauseNodes, c2 \in HashClauseNodes :
       \E hc \in {<<<<c1>>, <<c2>>>>,
                  <<<<c1, c2>>, <<[tag |-> "OpExpr",
                                   args |-> <<{MaxVars}, {1}>>]>>>>} :
          pscan = [NoPscan EXCEPT
                     !.pc = "setref", !.host = h, !.tlist = tl,
                     !.plan_clauses = hc, !.hash_clauses = hc,
                     !.mhash = [d \in 1..NRels |-> NoKeys]]

NextSetRef == gpuhashjoin_set_plan_ref

SpecSetRef == InitSetRef /\ [][NextSetRef]_vars


\* the planned hash clause k of depth d, and the MultiHash node of depth d
\* has got its keys
PlanClause(d, k) == pscan.plan_clauses[d][k]

KeysStored(d) ==
    pscan.pc = "planned" \/ pscan.mhash[d].hash_inner_keys # <<>>

\* C28: once the keys of the MultiHash node of depth d are stored, both
\* lists have one element per hash clause of that depth, in the order of
\* the clauses; the inner key is one side of the clause, all of whose Vars
\* the outer plan of depth d yields, with every Var turned into OUTER_VAR
\* and its place in the target list of that plan, and the outer key is the
\* other side with every Var turned into INDEX_VAR and its pseudo-column
C28_KeysOfClauses ==
    \A d \in 1..NRels :
        KeysStored(d) =>
          /\ Len(pscan.mhash[d].hash_inner_keys) = Len(pscan.plan_clauses[d])
          /\ Len(pscan.mhash[d].hash_outer_keys) = Len(pscan.plan_clauses[d])
          /\ \A k \in 1..Len(pscan.plan_clauses[d]) :
                \E a \in 1..2 :
                    /\ \A v \in PlanClause(d, k).args[a] :
                          pscan.tlist[v] = {d}
                    /\ pscan.mhash[d].hash_inner_keys[k] =
                          [v \in PlanClause(d, k).args[a] |->
                              [varno |-> "OUTER_VAR",
                               varattno |->
                                  Cardinality({u \in 1..v :
                                                 d \in pscan.tlist[u]})]]
                    /\ pscan.mhash[d].hash_outer_keys[k] =
                          [v \in PlanClause(d, k).args[3 - a] |->
                              [varno |-> "INDEX_VAR",
                               varattno |->
                                  VtransOfExpr(pscan.vartrans, v).resno]]

\* a finished plan whose depth 1 has two hash clauses; the first has its
\* inner side to the right, and a Var of that side is the second column of
\* the scanned relation and the first of the pseudo relation
C28_Witness ==
    /\ pscan.pc = "planned"
    /\ Len(pscan.plan_clauses[1]) = 2
    /\ \E v \in PlanClause(1, 1).args[2] :
          /\ pscan.tlist[v] = {1}
          /\ \E u \in PlanClause(1, 1).args[1] : pscan.tlist[u] # {1}
          /\ pscan.mhash[1].hash_inner_keys[1][v].varattno = 2
          /\ VtransOfExpr(pscan.vartrans, v).resno = 1

\* the provenance table has a Var of the expression that is not of depth d
NotOfDepth(node, d) ==
    \E v \in node : VtransOfExpr(pscan.vartrans, v).srcdepth # d

\* the planned hash clause k of depth d is no binary operator expression,
\* or neither of its sides is of depth d
NotBinary(d, k) ==
    PlanClause(d, k).tag # "OpExpr" \/ Len(PlanClause(d, k).args) # 2

NeitherSide(d, k) ==
    /\ ~NotBinary(d, k)
    /\ NotOfDepth(PlanClause(d, k).args[1], d)
    /\ NotOfDepth(PlanClause(d, k).args[2], d)

\* C29: gpuhashjoin_set_plan_ref ends with an error exactly if some hash
\* clause is no binary operator expression or has neither side of its
\* depth, and the MultiHash node of a depth that has such a clause never
\* gets keys
C29_BadClauseIsError ==
    pscan.pc \in {"planned", "error"} =>
      /\ pscan.pc = "error" <=>
            \E d \in 1..NRels : \E k \in 1..Len(pscan.plan_clauses[d]) :
                NotBinary(d, k) \/ NeitherSide(d, k)
      /\ \A d \in 1..NRels :
            (\E k \in 1..Len(pscan.plan_clauses[d]) :
                NotBinary(d, k) \/ NeitherSide(d, k))
            => /\ pscan.mhash[d].hash_inner_keys = <<>>
               /\ pscan.mhash[d].hash_outer_keys = <<>>

\* the clause of depth 2 has neither side of depth 2: the call has failed
\* after the MultiHash node of depth 1 has got its keys
C29_Witness ==
    /\ pscan.pc = "error"
    /\ pscan.errmsg = "Unexpected OpExpr arguments"
    /\ NeitherSide(NRels, 1)
    /\ pscan.mhash[1].hash_inner_keys # <<>>
    /\ pscan.mhash[NRels].hash_inner_keys = <<>>


(* ------------------------------------------------------------------ *)
(* The MultiHash plan node: multihash_copy_plan and what                *)
(* multihash_explain shows of a node.                                   *)
(* ------------------------------------------------------------------ *)
MaxSlots == 3
MaxLoops == 3

\* the MultiHash nodes create_gpuhashjoin_plan may build; threshold_ratio
\* is kept as its numerator over PlanHashtableSize
MultiHashNodes ==
    [depth : 1..NRels, nslots : 1..MaxSlots, nloops : 1..MaxLoops,
     threshold_ratio : {ThresholdSize(d) : d \in 1..NRels},
     hashtable_size : {PlanHashtableSize, 2 * PlanHashtableSize},
     hash_inner_keys : {<<>>, <<[varno |-> "OUTER_VAR", varattno |-> 1]>>},
     hash_outer_keys : {<<>>, <<[varno |-> "INDEX_VAR", varattno |-> 2]>>}]

\* multihash_copy_plan
multihash_copy_plan(oldnode) ==
    [depth |-> oldnode.depth,
     nslots |-> oldnode.nslots,
     nloops |-> oldnode.nslots,
     threshold_ratio |-> oldnode.threshold_ratio,
     hashtable_size |-> oldnode.hashtable_size,
     hash_inner_keys |-> oldnode.hash_inner_keys,
     hash_outer_keys |-> oldnode.hash_outer_keys]

\* "%.2f%%" of 100.0 * threshold_ratio, in hundredths of a percent
MemoryUsage(threshold_ratio) ==
    (2 * 10000 * threshold_ratio + PlanHashtableSize)
        \div (2 * PlanHashtableSize)

\* the hash parameters multihash_explain shows
multihash_explain(mhash) ==
    [Buckets |-> mhash.nslots, Batches |-> mhash.nloops,
     MemoryUsage |-> MemoryUsage(mhash.threshold_ratio)]

\* the plan is copied (copyObject of the plan tree)
CopyPlan ==
    /\ pscan.pc = "plan"
    /\ pscan' = [pscan EXCEPT !.pc = "copied",
                              !.newnode = multihash_copy_plan(pscan.mhash)]
    /\ UNCHANGED <<scan, aside_pscan>>

\* EXPLAIN of the original and of the copy
ExplainPlans ==
    /\ pscan.pc = "copied"
    /\ pscan' = [pscan EXCEPT !.pc = "explained",
                              !.explain = <<multihash_explain(pscan.mhash),
                                            multihash_explain(pscan.newnode)>>]
    /\ UNCHANGED <<scan, aside_pscan>>

InitCopy ==
    /\ outer_bulkload = FALSE
    /\ exec_multi = FALSE
    /\ host_clauses = FALSE
    /\ inner_nchunks = 1
    /\ InitState
    /\ hist = InitHist
    /\ devq = NoDevice
    /\ bld = NoBuild
    /\ kern = NoKern
    /\ preagg = NoPreagg
    /\ \E oldnode \in MultiHashNodes :
           pscan = [NoPscan EXCEPT !.pc = "plan", !.mhash = oldnode]

NextCopy ==
    \/ CopyPlan
    \/ ExplainPlans

SpecCopy == InitCopy /\ [][NextCopy]_vars

\* C38: the node multihash_copy_plan returns equals the original in every
\* field, and EXPLAIN shows the same Buckets and Batches for both
C38_CopyEqualsOriginal ==
    /\ pscan.pc \in {"copied", "explained"} => pscan.newnode = pscan.mhash
    /\ pscan.pc = "explained"
          => /\ pscan.explain[2].Buckets = pscan.explain[1].Buckets
             /\ pscan.explain[2].Batches = pscan.explain[1].Batches


(* ------------------------------------------------------------------ *)
(* Scan, rescan and end with waits that may time out.                   *)
(* ------------------------------------------------------------------ *)
InitTimeout ==
    /\ outer_bulkload = FALSE
    /\ exec_multi \in BOOLEAN
    /\ host_clauses = FALSE
    /\ inner_nchunks = 1
    /\ InitState
    /\ hist = InitHist
    /\ AsideIdle

NextTimeout ==
    \/ ExecCall
    \/ FetchLoop
    \/ FetchResult
    \/ RescanBegin
    \/ RescanFinish
    \/ EndBegin
    \/ EndFinish
    \/ Drain
    \/ DequeueTimeout
    \/ clserv_process_gpuhashjoin
    \/ BuildDone
    \/ Respond

SpecTimeout == InitTimeout /\ [][NextTimeout]_vars

\* C18: a wait that times out, in pgstrom_fetch_gpuhashjoin, in
\* gpuhashjoin_rescan or in gpuhashjoin_end, ends the call with an error
\* and leaves the node as it was: num_running is not decreased, no
\* session is put on ready_pscans or released; afterwards the backend
\* does nothing more, and the sessions it waited for still count as
\* running
C18_TimeoutIsFatal ==
    /\ [][(hist'.timeout # "" /\ hist.timeout = "") =>
             /\ pc' = "error"
             /\ ghjs' = ghjs
             /\ msg' = msg
             /\ respq' = respq]_vars
    /\ [](hist.timeout # "" =>
             /\ pc = "error"
             /\ ghjs.num_running > 0
             /\ ghjs.ready_pscans = <<>>)
    /\ [][hist.timeout # "" => (ghjs' = ghjs /\ pc' = pc)]_vars

\* a wait has timed out in gpuhashjoin_rescan while a session was on the
\* device
C18_Witness ==
    /\ hist.timeout = "rescan"
    /\ \E s \in Sessions : msg[s].st = "running"


\* whether the join of session s produced more rows than its first
\* result buffer had rooms
Overflowed(s) == RowsOf(s) > ResultRooms(Cardinality(msg[s].rows))

\* C19: a session is replied with StromError_OutOfSharedMemory only if its
\* destination overflowed in its first run and the replacement could not
\* be allocated; it is then replied once, was not retried and is in no
\* queue of the server.  No reply carries StromError_DataStoreNoSpace,
\* and unless a failure is injected every reply says success
C19_OverflowErrorOnlyWithoutMemory ==
    \A s \in Sessions :
        /\ msg[s].n_reply >= 1 =>
              msg[s].errcode # StromError_DataStoreNoSpace
        /\ (msg[s].n_reply >= 1
            /\ msg[s].errcode = StromError_OutOfSharedMemory) =>
              /\ Overflowed(s)
              /\ msg[s].n_reply = 1
              /\ msg[s].n_retry = 0
              /\ msg[s].n_main = 1
              /\ msg[s].st # "queued" /\ msg[s].st # "running"
              /\ \A i \in 1..Len(srvq) : srvq[i] # s
              /\ \A i \in 1..Len(waitq) : waitq[i] # s
              /\ hist.faults >= 1
        /\ (msg[s].n_reply >= 1 /\ hist.faults = 0) =>
              msg[s].errcode = StromError_Success

\* the backend has got the out-of-shared-memory reply of a session whose
\* destination overflowed and has raised the error
C19_Witness ==
    /\ pc = "error"
    /\ \E s \in Sessions :
          /\ Overflowed(s)
          /\ msg[s].n_reply = 1
          /\ msg[s].errcode = StromError_OutOfSharedMemory

(* ------------------------------------------------------------------ *)
(* The kernel function gpuhashjoin_execute, as gpuhashjoin_codegen and  *)
(* gpuhashjoin_codegen_recurse emit it, run for one outer row.          *)
(* An entry offset is the position of the entry in its table.           *)
(* ------------------------------------------------------------------ *)

\* hash_N between INIT_CRC32 and FIN_CRC32: equal keys give equal hash
\* values, different keys may collide
HashKey(key) == key % NHash

\* the entries a MultiHash node of depth can have stored: the hash is the
\* one of the key of the entry
KernEntries(depth) ==
    {[hash |-> HashKey(key), key |-> key, kvar |-> v, qual |-> q] :
        key \in 0..MaxKey,
        v \in (IF depth < NRels THEN 0..MaxKvar ELSE {0}),
        q \in BOOLEAN}

KernTables(depth) ==
    UNION {[1..n -> KernEntries(depth)] : n \in 0..MaxEntries}

\* KERN_HASH_FIRST_ENTRY(khtable, hash) and KERN_HASH_NEXT_ENTRY: the
\* entries of the slot of hash, the one inserted last first, from off down
RECURSIVE KernHashChain(_, _, _, _)
KernHashChain(khtable, nslots, hash, off) ==
    IF off = 0 THEN <<>>
    ELSE (IF khtable[off].hash % nslots = hash % nslots
          THEN <<off>> ELSE <<>>)
         \o KernHashChain(khtable, nslots, hash, off - 1)

\* the value of hash_outer_keys of depth: a column of the outer row
\* (KVAR of srcdepth 0) or of the current entry of a shallower depth
OuterKey(k, depth, kentry) ==
    IF depth = 1 \/ k.srcdepth = 0 THEN k.key
    ELSE k.khtable[k.srcdepth][kentry[k.srcdepth]].kvar

\* a condition that compares the hash values only
KernHashOnly(k, depth, kentry, e) ==
    e.hash = HashKey(OuterKey(k, depth, kentry))

\* if (kentry_N->hash == hash_N && EVAL(hash clauses) && EVAL(quals))
KernEntryMatches(k, depth, kentry, e) ==
    /\ e.hash = HashKey(OuterKey(k, depth, kentry))
    /\ e.key = OuterKey(k, depth, kentry)
    /\ e.qual

\* the block of depth: the for loop over the chain of hash_N; a matching
\* entry enters the block of depth + 1, or at the innermost depth counts
\* the match and, if there is a result buffer, writes the result tuple
RECURSIVE gpuhashjoin_codegen_recurse(_, _, _, _)
RECURSIVE KernLoop(_, _, _, _, _)
\* what a matching entry does, cur being the current entries of the depths
KernMatched(k, depth, cur, acc) ==
    IF depth < NRels
    THEN gpuhashjoin_codegen_recurse(k, depth + 1, cur, acc)
    ELSE [n_matches |-> acc.n_matches + 1,
          out |-> IF k.rbuffer
                  THEN Append(acc.out,
                              [i \in 1..(NRels + 1) |->
                                  IF i = 1 THEN k.kds_index + 1
                                  ELSE cur[i - 1]])
                  ELSE acc.out]

KernLoop(k, depth, kentry, chain, acc) ==
    IF chain = <<>> THEN acc
    ELSE KernLoop(k, depth, kentry, Tail(chain),
                  IF KernEntryMatches(k, depth, kentry,
                                      k.khtable[depth][Head(chain)])
                  THEN KernMatched(k, depth,
                                   [kentry EXCEPT ![depth] = Head(chain)],
                                   acc)
                  ELSE acc)

gpuhashjoin_codegen_recurse(k, depth, kentry, acc) ==
    KernLoop(k, depth, kentry,
             KernHashChain(k.khtable[depth], k.nslots,
                           HashKey(OuterKey(k, depth, kentry)),
                           Len(k.khtable[depth])),
             acc)

\* gpuhashjoin_execute: n_matches = 0, the nested blocks, return n_matches
gpuhashjoin_codegen(k) ==
    LET r == gpuhashjoin_codegen_recurse(k, 1, [d \in 1..NRels |-> 0],
                                         [n_matches |-> 0, out |-> <<>>])
    IN  [k EXCEPT !.pc = "returned", !.n_matches = r.n_matches,
                  !.out = r.out]

\* the kernel calls gpuhashjoin_execute for the row kds_index of the outer
\* chunk, with a result buffer or with NULL
KernExecute ==
    /\ kern.pc = "loaded"
    /\ \E kds_index \in 0..(MaxOuterRows - 1), key \in 0..MaxKey,
          rbuffer \in BOOLEAN :
          kern' = gpuhashjoin_codegen([kern EXCEPT !.kds_index = kds_index,
                                                   !.key = key,
                                                   !.rbuffer = rbuffer])
    /\ UNCHANGED <<scan, aside_kern>>

InitKernel ==
    /\ outer_bulkload = FALSE
    /\ exec_multi = FALSE
    /\ host_clauses = FALSE
    /\ inner_nchunks = 1
    /\ InitState
    /\ hist = InitHist
    /\ devq = NoDevice
    /\ bld = NoBuild
    /\ pscan = NoPscan
    /\ \E t1 \in KernTables(1), t2 \in KernTables(2), n \in 1..NHash,
          sd \in 0..(NRels - 1) :
          kern = [NoKern EXCEPT !.pc = "loaded", !.khtable = <<t1, t2>>,
                                !.nslots = n, !.srcdepth = sd]
    /\ preagg = NoPreagg

NextKernel == KernExecute

SpecKernel == InitKernel /\ [][NextKernel]_vars

\* the combinations of entries, one of each depth, whose stored hash is the
\* hash of the key of that depth and whose hash clause and qual hold
KernCombos ==
    {c \in [1..NRels -> 1..MaxEntries] :
        \A d \in 1..NRels :
            /\ c[d] <= Len(kern.khtable[d])
            /\ LET key == IF d = 1 \/ kern.srcdepth = 0 THEN kern.key
                          ELSE kern.khtable[kern.srcdepth]
                                           [c[kern.srcdepth]].kvar
                   e == kern.khtable[d][c[d]]
               IN  e.hash = HashKey(key) /\ e.key = key /\ e.qual}

\* the result tuples of the combinations: outer row id, then the offsets
KernExpected ==
    {[i \in 1..(NRels + 1) |-> IF i = 1 THEN kern.kds_index + 1 ELSE c[i - 1]] :
        c \in KernCombos}

\* C20 as the specification states it: gpuhashjoin_execute emits exactly
\* one result tuple (outer row id, one entry offset per depth) for every
\* combination of entries, one per depth, whose stored hash equals the
\* computed hash and whose hash and qual clauses hold, returns their
\* number as n_matches, and emits nothing for a row without a match at
\* some depth
C20_OneTuplePerCombination ==
    kern.pc = "returned" =>
        /\ Range(kern.out) = KernExpected
        /\ Len(kern.out) = Cardinality(KernExpected)
        /\ kern.n_matches = Len(kern.out)
        /\ (KernCombos = {} => kern.out = <<>> /\ kern.n_matches = 0)

\* C20, amended: gpuhashjoin_execute returns as n_matches the number of
\* combinations of entries, one per depth, whose stored hash equals the
\* computed hash and whose hash and qual clauses hold; called with a
\* result buffer it emits exactly one result tuple for every such
\* combination, called with rbuffer = NULL it emits none; a row without a
\* match at some depth gives n_matches = 0 and no tuple
C20_OneTuplePerCombinationIfBuffer ==
    kern.pc = "returned" =>
        /\ kern.n_matches = Cardinality(KernCombos)
        /\ kern.rbuffer =>
              /\ Range(kern.out) = KernExpected
              /\ Len(kern.out) = Cardinality(KernExpected)
        /\ ~kern.rbuffer => kern.out = <<>>
        /\ (KernCombos = {} => kern.out = <<>> /\ kern.n_matches = 0)

\* a call with a result buffer that emitted two tuples through an entry of
\* depth 1 whose column is the key of depth 2, while an entry of depth 2
\* with the same hash and another key was passed over
C20_Witness ==
    /\ kern.pc = "returned"
    /\ kern.rbuffer
    /\ kern.srcdepth = 1
    /\ Len(kern.out) = 2
    /\ kern.n_matches = 2
    /\ \E i \in 1..Len(kern.khtable[2]) :
          /\ kern.khtable[2][i].hash =
                HashKey(kern.khtable[1][kern.out[1][2]].kvar)
          /\ kern.khtable[2][i].key #
                kern.khtable[1][kern.out[1][2]].kvar

(* ------------------------------------------------------------------ *)
(* opencl_gpupreagg.h: the partial sum of two running totals            *)
(* (GPUPREAGG_AGGCALC_PSUM_SHORT, _INT and _LONG).  cl_short has its    *)
(* 16 bits; cl_int and cl_long are narrowed to IntBits and LongBits so  *)
(* that sums stay within 32-bit integers, in the order short < int <    *)
(* long of the device.                                                  *)
(* ------------------------------------------------------------------ *)
ShortBits == 16
IntBits == 24
LongBits == 28

Pow2(n) == 2 ^ n

\* the width of the *_val field of a pagg_datum
FieldBits(field) ==
    CASE field = "short" -> ShortBits
      [] field = "int" -> IntBits
      [] field = "long" -> LongBits

TypeMin(bits) == 0 - Pow2(bits - 1)
TypeMax(bits) == Pow2(bits - 1) - 1
Fits(v, bits) == v >= TypeMin(bits) /\ v <= TypeMax(bits)

\* a value stored in a signed integer of the given width
Wrap(v, bits) == ((v + Pow2(bits - 1)) % Pow2(bits)) - Pow2(bits - 1)

\* the type an operand of the given width has in an expression: an
\* operand narrower than int is promoted to int
Promoted(bits) == IF bits < IntBits THEN IntBits ELSE bits

\* values (x) + (y) may have: the sum if the promoted type holds it;
\* otherwise the signed overflow is not defined, and the device either
\* wraps around or the compiler takes the sum as if it had not overflowed
SumInExpr(x, y, bits) ==
    IF Fits(x + y, Promoted(bits)) THEN {x + y}
    ELSE {Wrap(x + y, Promoted(bits)), x + y}

\* CHECK_OVERFLOW_INT(x, y), for a sum sum of x and y
CHECK_OVERFLOW_INT(x, y, sum) ==
    ((x < 0) = (y < 0)) /\ ((sum < 0) # (x < 0))

StromError_CpuReCheck == 1

\* GPUPREAGG_AGGCALC_PSUM_TEMPLATE: the accumulator and the error code
\* after the step, for each outcome of the sum
GPUPREAGG_AGGCALC_PSUM(field, errcode, accum, newval) ==
    LET bits == FieldBits(field)
    IN  IF ~accum.isnull
        THEN IF ~newval.isnull
             THEN { [errcode |-> IF CHECK_OVERFLOW_INT(accum.val, newval.val,
                                                       sum)
                                 THEN StromError_CpuReCheck ELSE errcode,
                     accum |-> [isnull |-> FALSE,
                                val |-> Wrap(accum.val + newval.val, bits)]] :
                    sum \in SumInExpr(accum.val, newval.val, bits) }
             ELSE { [errcode |-> errcode, accum |-> accum] }
        ELSE IF ~newval.isnull
        THEN { [errcode |-> errcode,
                accum |-> [isnull |-> newval.isnull, val |-> newval.val]] }
        ELSE { [errcode |-> errcode, accum |-> accum] }

\* running totals at and next to the ends of the range of a field
Totals(field) ==
    LET bits == FieldBits(field)
    IN  {TypeMin(bits), TypeMin(bits) + 1, -1, 0, 1,
         TypeMax(bits) - 1, TypeMax(bits)}

PaggDatums(field) == [isnull : BOOLEAN, val : Totals(field)]

\* one work-item adds the running total of another one to its own
AggcalcPsum ==
    /\ preagg.pc = "psum"
    /\ \E r \in GPUPREAGG_AGGCALC_PSUM(preagg.field, preagg.errcode,
                                        preagg.accum, preagg.newval) :
          preagg' = [preagg EXCEPT !.pc = "summed", !.errcode = r.errcode,
                                   !.result = r.accum]
    /\ UNCHANGED <<scan, aside_preagg>>

InitPsum ==
    /\ outer_bulkload = FALSE
    /\ exec_multi = FALSE
    /\ host_clauses = FALSE
    /\ inner_nchunks = 1
    /\ InitState
    /\ hist = InitHist
    /\ devq = NoDevice
    /\ bld = NoBuild
    /\ pscan = NoPscan
    /\ kern = NoKern
    /\ \E field \in {"short", "int", "long"} :
          \E accum \in PaggDatums(field), newval \in PaggDatums(field) :
              preagg = [pc |-> "psum", field |-> field, accum |-> accum,
                        newval |-> newval, errcode |-> StromError_Success,
                        result |-> accum]

NextPsum == AggcalcPsum

SpecPsum == InitPsum /\ [][NextPsum]_vars

\* C39: after the partial-sum step of two totals that are not NULL,
\* StromError_CpuReCheck is set exactly when their sum does not fit into
\* the width of the field; with a NULL operand the result is the other
\* operand and no error is set
C39_PsumOverflowIsRecheck ==
    preagg.pc = "summed" =>
        LET a == preagg.accum
            n == preagg.newval
        IN  IF ~a.isnull /\ ~n.isnull
            THEN (preagg.errcode = StromError_CpuReCheck)
                     <=> ~Fits(a.val + n.val, FieldBits(preagg.field))
            ELSE /\ preagg.errcode = StromError_Success
                 /\ IF a.isnull /\ n.isnull THEN preagg.result.isnull
                    ELSE preagg.result = (IF a.isnull THEN n ELSE a)

(* ------------------------------------------------------------------ *)
(* opencl_gpupreagg.h: gpupreagg_bitonic_local.  One work-group sorts   *)
(* the row indices of its partition of 2 x localSize rows in local      *)
(* memory; every step of the sort is run by all work-items between two  *)
(* barriers.                                                            *)
(* ------------------------------------------------------------------ *)
MaxLocalLog == 2
MaxSortKey == 1
MaxPrtID == 1

\* get_local_size(0): a power of two
LocalSizes == {2 ^ k : k \in 0..MaxLocalLog}

\* gpupreagg_keycomp on the grouping keys of two rows
gpupreagg_keycomp(key, pos0, pos1) ==
    IF key[pos0] < key[pos1] THEN -1
    ELSE IF key[pos0] > key[pos1] THEN 1 ELSE 0

\* the row of the partition a work-item compares with the higher one
Idx0(localID, unitSize) ==
    (localID \div (unitSize \div 2)) * unitSize
        + (localID % (unitSize \div 2))

\* the partner of idx0 without the reversal in the first step of a block
Idx1NoReverse(idx0, unitSize, reversing) == (unitSize \div 2) + idx0

\* (idx0 & ~unitMask) | (~idx0 & unitMask) in the first step of a block,
\* halfUnitSize + idx0 in the other steps
Idx1(idx0, unitSize, reversing) ==
    IF reversing
    THEN (idx0 \div unitSize) * unitSize
             + ((unitSize - 1) - (idx0 % unitSize))
    ELSE (unitSize \div 2) + idx0

\* localEntry: the rows of the partition
LocalEntry(nrows, prtPos, prtSize) ==
    IF prtPos + prtSize < nrows THEN prtSize ELSE nrows - prtPos

\* the elements of localIdx a work-item reads and may write in a step
Touched(g, localID) ==
    LET idx0 == Idx0(localID, g.unitSize)
        idx1 == Idx1(idx0, g.unitSize, g.unitSize = g.blockSize)
    IN  IF idx1 < g.localEntry THEN {idx0, idx1} ELSE {}

\* whether the work-item swaps its two elements
Swaps(g, localID) ==
    LET idx0 == Idx0(localID, g.unitSize)
        idx1 == Idx1(idx0, g.unitSize, g.unitSize = g.blockSize)
    IN  /\ idx1 < g.localEntry
        /\ gpupreagg_keycomp(g.key, g.localIdx[idx0 + 1],
                             g.localIdx[idx1 + 1]) > 0

\* localIdx after the step
SwappedIdx(g) ==
    [i \in 1..Len(g.localIdx) |->
        LET sw == {w \in 0..(g.localSize - 1) :
                      Swaps(g, w) /\ (i - 1) \in Touched(g, w)}
        IN  IF sw = {} THEN g.localIdx[i]
            ELSE LET w == CHOOSE x \in sw : TRUE
                     other == CHOOSE j \in Touched(g, w) : j # i - 1
                 IN  g.localIdx[other + 1]]

\* the row indices are put into localIdx; elements behind localEntry are
\* not written
BitonicLoad ==
    /\ preagg.pc = "load"
    /\ preagg' = [preagg EXCEPT
          !.pc = "sort",
          !.localIdx = [i \in 1..(2 * preagg.localSize) |->
                           IF i - 1 < preagg.localEntry
                           THEN preagg.prtPos + i - 1 ELSE -1],
          !.blockSize = 2, !.unitSize = 2]
    /\ UNCHANGED <<scan, aside_preagg>>

\* one pass of the inner loop, by all work-items, up to the barrier
BitonicStep ==
    /\ preagg.pc = "sort"
    /\ preagg.blockSize <= 2 * preagg.localSize
    /\ LET clash == \E w1, w2 \in 0..(preagg.localSize - 1) :
                        /\ w1 # w2
                        /\ Touched(preagg, w1) \cap Touched(preagg, w2) # {}
           last == preagg.unitSize = 2
       IN  preagg' = [preagg EXCEPT
              !.localIdx = SwappedIdx(preagg),
              !.clash = @ \/ clash,
              !.steps = @ + 1,
              !.unitSize = IF last THEN 2 * preagg.blockSize
                           ELSE preagg.unitSize \div 2,
              !.blockSize = IF last THEN 2 * @ ELSE @]
    /\ UNCHANGED <<scan, aside_preagg>>

\* the slice of rindex is written from localIdx
BitonicStore ==
    /\ preagg.pc = "sort"
    /\ preagg.blockSize > 2 * preagg.localSize
    /\ preagg' = [preagg EXCEPT
          !.pc = "sorted",
          !.rindex = [i \in 1..(2 * preagg.localSize) |->
                         IF i - 1 < preagg.localEntry
                         THEN preagg.localIdx[i] ELSE @[i]]]
    /\ UNCHANGED <<scan, aside_preagg>>

InitSort ==
    /\ outer_bulkload = FALSE
    /\ exec_multi = FALSE
    /\ host_clauses = FALSE
    /\ inner_nchunks = 1
    /\ InitState
    /\ hist = InitHist
    /\ devq = NoDevice
    /\ bld = NoBuild
    /\ pscan = NoPscan
    /\ kern = NoKern
    /\ \E localSize \in LocalSizes, prtID \in 0..MaxPrtID :
          \E nrows \in 0..((MaxPrtID + 1) * 2 * localSize) :
             \E key \in [(prtID * 2 * localSize)
                            ..(prtID * 2 * localSize + 2 * localSize - 1)
                          -> 0..MaxSortKey] :
                preagg = [pc |-> "load", localSize |-> localSize,
                          nrows |-> nrows, prtPos |-> prtID * 2 * localSize,
                          localEntry |-> LocalEntry(nrows,
                                                    prtID * 2 * localSize,
                                                    2 * localSize),
                          key |-> key,
                          localIdx |-> [i \in 1..(2 * localSize) |-> -1],
                          rindex |-> [i \in 1..(2 * localSize) |-> -2],
                          blockSize |-> 0, unitSize |-> 0, steps |-> 0,
                          clash |-> FALSE]

NextSort ==
    \/ BitonicLoad
    \/ BitonicStep
    \/ BitonicStore

SpecSort == InitSort /\ [][NextSort]_vars

\* the rows of the partition
PrtRows == preagg.prtPos..(preagg.prtPos + preagg.localEntry - 1)

\* C36: when gpupreagg_bitonic_local is through, the slice of rindex of
\* the partition holds every row index of the partition once, in
\* non-descending order of gpupreagg_keycomp, also for a partition that
\* is not full; and in no step two work-items touch the same element of
\* localIdx
C36_LocalSortSorts ==
    /\ preagg.pc \in {"sort", "sorted"} => ~preagg.clash
    /\ preagg.pc = "sorted" =>
          /\ \A r \in PrtRows :
                Cardinality({i \in 1..preagg.localEntry :
                                preagg.rindex[i] = r}) = 1
          /\ \A i \in 1..preagg.localEntry : preagg.rindex[i] \in PrtRows
          /\ \A i \in 1..(preagg.localEntry - 1) :
                gpupreagg_keycomp(preagg.key, preagg.rindex[i],
                                  preagg.rindex[i + 1]) <= 0

\* a partition that is partly filled, with a number of rows that is not
\* a power of two, has been sorted and had rows to swap
C36_Witness ==
    /\ preagg.pc = "sorted"
    /\ preagg.localSize = 4
    /\ preagg.localEntry = 5
    /\ preagg.nrows = preagg.prtPos + 5
    /\ preagg.prtPos > 0
    /\ \E i \in 1..4 : preagg.rindex[i] > preagg.rindex[i + 1]

(* ------------------------------------------------------------------ *)
(* opencl_gpupreagg.h: gpupreagg_reduction.  One work-group takes the   *)
(* rows of its partition in the order of rindex (sorted by key), gives  *)
(* every group of equal keys a group id, reserves one destination row   *)
(* per group and merges the running totals of a group in local memory;  *)
(* the steps are the parts of the kernel between two barriers.          *)
(* ------------------------------------------------------------------ *)
MaxReduceLog == 3
MaxCols == 2
MaxRooms == 9
INVALID_GROUPID == -1

ReduceSizes == {2 ^ k : k \in 0..MaxReduceLog}

\* a running total that has not been loaded
NoDatum == [group_id |-> INVALID_GROUPID, rows |-> {}, cnt |-> 0]

\* gpupreagg_aggcalc: the running total newval is added to accum; which
\* rows are in a total, and how many were added, is kept
gpupreagg_aggcalc(accum, newval) ==
    [accum EXCEPT !.rows = @ \cup newval.rows, !.cnt = @ + newval.cnt]

\* isNewID of a work-item
IsNewID(g, localID) ==
    IF localID = 0 THEN 1
    ELSE IF localID < g.localEntry /\ g.differs[localID] THEN 1
    ELSE 0

\* arithmetic_stairlike_add: the sum of the values of the work-items
\* below
RECURSIVE arithmetic_stairlike_add(_, _)
arithmetic_stairlike_add(g, localID) ==
    IF localID = 0 THEN 0
    ELSE arithmetic_stairlike_add(g, localID - 1) + IsNewID(g, localID - 1)

WorkItems(g) == 0..(g.localSize - 1)

\* the group ids of the work-items and the number of groups
GroupIds ==
    /\ preagg.pc = "start"
    /\ IF preagg.exhdr # Len(preagg.atts)
       THEN preagg' = [preagg EXCEPT
                         !.pc = "out",
                         !.errcode = StromError_DataStoreCorruption]
       ELSE IF preagg.localEntry <= 0
       THEN preagg' = [preagg EXCEPT !.pc = "out"]
       ELSE preagg' = [preagg EXCEPT
              !.pc = "reserve",
              !.isNewID = [i \in 1..preagg.localSize |->
                              IsNewID(preagg, i - 1)],
              !.groupID = [i \in 1..preagg.localSize |->
                              arithmetic_stairlike_add(preagg, i - 1)
                                  + IsNewID(preagg, i - 1) - 1],
              !.ngroups = arithmetic_stairlike_add(preagg, preagg.localSize)]
    /\ UNCHANGED <<scan, aside_preagg>>

\* work-item 0 reserves the destination rows of the groups
ReductionReserve ==
    /\ preagg.pc = "reserve"
    /\ preagg' = [preagg EXCEPT
          !.base = preagg.nitems,
          !.nitems = @ + preagg.ngroups,
          !.errcode = IF preagg.nrooms < preagg.nitems + preagg.ngroups
                      THEN StromError_DataStoreNoSpace ELSE @,
          !.pc = IF preagg.nrooms < preagg.nitems + preagg.ngroups
                 THEN "out" ELSE "column"]
    /\ UNCHANGED <<scan, aside_preagg>>

\* a write to a row of the destination store
DstWrite(g, cindex, localID, datum) ==
    [col |-> cindex, row |-> g.base + g.groupID[localID + 1],
     by |-> localID, rows |-> datum.rows, cnt |-> datum.cnt]

\* the next column: a column that is no aggregate is copied by the first
\* row of each group, an aggregate is loaded into l_data
ColumnBegin ==
    /\ preagg.pc = "column"
    /\ LET c == preagg.cindex
       IN  IF c >= Len(preagg.atts)
           THEN preagg' = [preagg EXCEPT !.pc = "out"]
           ELSE IF preagg.atts[c + 1] # "agg"
           THEN preagg' = [preagg EXCEPT
                  !.cindex = c + 1,
                  !.written = @ \cup
                      {DstWrite(preagg, c, w, [rows |-> {w}, cnt |-> 1]) :
                          w \in {v \in WorkItems(preagg) :
                                    preagg.isNewID[v + 1] = 1}}]
           ELSE preagg' = [preagg EXCEPT
                  !.l_data = [i \in 1..preagg.localSize |->
                                 IF i - 1 < preagg.localEntry
                                 THEN [group_id |-> preagg.groupID[i],
                                       rows |-> {i - 1}, cnt |-> 1]
                                 ELSE NoDatum],
                  !.unitSize = 2,
                  !.pc = IF 2 <= preagg.localSize THEN "lower" ELSE "store"]
    /\ UNCHANGED <<scan, aside_preagg>>

\* the work-items that look at a neighbour in the first half of a pass
LowerActive(g) ==
    {w \in WorkItems(g) :
        w % g.unitSize = g.unitSize \div 2 /\ w < g.localEntry}

\* ... and in the second half
UpperActive(g) ==
    {w \in LowerActive(g) :
        /\ g.l_data[w + 1].group_id # INVALID_GROUPID
        /\ w + (g.unitSize \div 2) < g.localEntry}

\* l_data after the work-items of src have merged their total into the
\* one of dst(w)
Merged(g, src, dst(_)) ==
    [i \in 1..g.localSize |->
        IF i - 1 \in src
        THEN [g.l_data[i] EXCEPT !.group_id = INVALID_GROUPID]
        ELSE LET from == {w \in src : dst(w) = i - 1}
             IN  IF from = {} THEN g.l_data[i]
                 ELSE gpupreagg_aggcalc(g.l_data[i],
                                        g.l_data[(CHOOSE w \in from : TRUE)
                                                 + 1])]

\* two work-items of act touch the same element of l_data
Clash(act, dst(_)) ==
    \E w1, w2 \in act : w1 # w2 /\ {w1, dst(w1)} \cap {w2, dst(w2)} # {}

\* first half of a pass: merge into the lower neighbour
MergeLower ==
    /\ preagg.pc = "lower"
    /\ LET half == preagg.unitSize \div 2
           dst(w) == w - half
           src == {w \in LowerActive(preagg) :
                      preagg.l_data[w + 1].group_id
                          = preagg.l_data[dst(w) + 1].group_id}
       IN  preagg' = [preagg EXCEPT
              !.l_data = Merged(preagg, src, dst),
              !.clash = @ \/ Clash(LowerActive(preagg), dst),
              !.pc = "upper"]
    /\ UNCHANGED <<scan, aside_preagg>>

\* a second half that merges nothing
MergeUpperSkip ==
    /\ preagg.pc = "upper"
    /\ preagg' = [preagg EXCEPT
          !.unitSize = 2 * @,
          !.pc = IF 2 * preagg.unitSize <= preagg.localSize
                 THEN "lower" ELSE "store"]
    /\ UNCHANGED <<scan, aside_preagg>>

\* second half of a pass: what is still valid is merged into the upper
\* neighbour
MergeUpper ==
    /\ preagg.pc = "upper"
    /\ LET half == preagg.unitSize \div 2
           dst(w) == w + half
           src == {w \in UpperActive(preagg) :
                      preagg.l_data[w + 1].group_id
                          = preagg.l_data[dst(w) + 1].group_id}
       IN  preagg' = [preagg EXCEPT
              !.l_data = Merged(preagg, src, dst),
              !.clash = @ \/ Clash(UpperActive(preagg), dst),
              !.unitSize = 2 * @,
              !.pc = IF 2 * preagg.unitSize <= preagg.localSize
                     THEN "lower" ELSE "store"]
    /\ UNCHANGED <<scan, aside_preagg>>

\* the running totals that are still valid are written back
WriteBack ==
    /\ preagg.pc = "store"
    /\ preagg' = [preagg EXCEPT
          !.written = @ \cup
              {DstWrite(preagg, preagg.cindex, w, preagg.l_data[w + 1]) :
                  w \in {v \in WorkItems(preagg) :
                            preagg.l_data[v + 1].group_id
                                # INVALID_GROUPID}},
          !.cindex = @ + 1,
          !.pc = "column"]
    /\ UNCHANGED <<scan, aside_preagg>>

\* the columns of the stores: grouping keys and aggregates
ReduceAtts ==
    {atts \in UNION {[1..n -> {"key", "agg"}] : n \in 1..MaxCols} :
        \E c \in DOMAIN atts : atts[c] = "agg"}

InitReduce ==
    /\ outer_bulkload = FALSE
    /\ exec_multi = FALSE
    /\ host_clauses = FALSE
    /\ inner_nchunks = 1
    /\ InitState
    /\ hist = InitHist
    /\ devq = NoDevice
    /\ bld = NoBuild
    /\ pscan = NoPscan
    /\ kern = NoKern
    /\ \E localSize \in ReduceSizes, prtID \in 0..1, atts \in ReduceAtts,
          nrooms \in {MaxRooms - 1, MaxRooms} :
          \E nrows \in 0..(2 * localSize),
             exhdr \in {Len(atts), Len(atts) + 1} :
             LET e == LocalEntry(nrows, prtID * localSize, localSize)
             IN  \E d \in [1..(e - 1) -> BOOLEAN] :
                    preagg =
                      [pc |-> "start", localSize |-> localSize,
                       prtPos |-> prtID * localSize, nrows |-> nrows,
                       localEntry |-> e, exhdr |-> exhdr, atts |-> atts,
                       differs |-> [i \in 1..localSize |->
                                       IF i < e THEN d[i] ELSE FALSE],
                       isNewID |-> <<>>, groupID |-> <<>>, ngroups |-> 0,
                       base |-> 0, nitems |-> MaxRooms - localSize,
                       nrooms |-> nrooms,
                       errcode |-> StromError_Success, cindex |-> 0,
                       unitSize |-> 0,
                       l_data |-> [i \in 1..localSize |-> NoDatum],
                       written |-> {}, clash |-> FALSE]

NextReduce ==
    \/ GroupIds
    \/ ReductionReserve
    \/ ColumnBegin
    \/ MergeLower
    \/ MergeUpper
    \/ WriteBack

SpecReduce == InitReduce /\ [][NextReduce]_vars

\* the group ids of the partition, and the work-items of a group
ReduceGroups == 0..(preagg.ngroups - 1)
GroupRows(gid) ==
    {w \in WorkItems(preagg) :
        w < preagg.localEntry /\ preagg.groupID[w + 1] = gid}

\* the work-items that hold a valid total of group gid
Holders(gid) ==
    {w \in WorkItems(preagg) : preagg.l_data[w + 1].group_id = gid}

\* the writes to the destination row of group gid in column c
WritesTo(c, gid) ==
    {x \in preagg.written : x.col = c /\ x.row = preagg.base + gid}

\* C37: after the reduction loop of an aggregate column every group of
\* the partition has exactly one work-item with a valid group_id, whose
\* total is made of every row of the group once; each destination row
\* base + groupID is written by one work-item per column; the work-group
\* reserves ngroups rows and sets StromError_DataStoreNoSpace exactly
\* when base + ngroups is above nrooms; no two work-items touch the same
\* element of l_data between two barriers
C37_OneHolderPerGroup ==
    /\ ~preagg.clash
    /\ preagg.pc = "store" =>
          \A gid \in ReduceGroups :
             /\ Cardinality(Holders(gid)) = 1
             /\ \A w \in Holders(gid) :
                   /\ w \in GroupRows(gid)
                   /\ preagg.l_data[w + 1].rows = GroupRows(gid)
                   /\ preagg.l_data[w + 1].cnt = Cardinality(GroupRows(gid))
    /\ preagg.pc \in {"column", "lower", "upper", "store"} =>
          /\ preagg.ngroups
                = Cardinality({preagg.groupID[w + 1] :
                                 w \in 0..(preagg.localEntry - 1)})
          /\ preagg.nitems = preagg.base + preagg.ngroups
          /\ preagg.base + preagg.ngroups <= preagg.nrooms
          /\ preagg.errcode = StromError_Success
          /\ \A c \in 0..(preagg.cindex - 1), gid \in ReduceGroups :
                /\ Cardinality(WritesTo(c, gid)) = 1
                /\ \A x \in WritesTo(c, gid) :
                      /\ x.by \in GroupRows(gid)
                      /\ preagg.atts[c + 1] = "agg"
                            => /\ x.rows = GroupRows(gid)
                               /\ x.cnt = Cardinality(GroupRows(gid))
    /\ preagg.pc = "out" /\ preagg.errcode = StromError_DataStoreNoSpace
          => /\ preagg.base + preagg.ngroups > preagg.nrooms
             /\ preagg.nitems = preagg.base + preagg.ngroups
             /\ preagg.written = {}

\* a partition that is not full, with a group that is merged downwards
\* and upwards and ends in a work-item that is not its first row
C37_Witness ==
    /\ preagg.pc = "store"
    /\ preagg.localSize = 8
    /\ preagg.localEntry = 7
    /\ preagg.ngroups = 3
    /\ GroupRows(1) = 1..5
    /\ Holders(1) = {4}

====
